---- MODULE Spec2Model ----
(***************************************************************************)
(* A model of the e-commerce store: the session/token manager and the      *)
(* request gate of the backend, the cart aggregate, and the token-refresh  *)
(* interceptor of the frontend user store.                                 *)
(*                                                                         *)
(* Time is counted in minutes.  A JSON web token is modelled by what       *)
(* determines its string: the secret that signed it (typ), its payload     *)
(* (userId, iat; exp = iat + ttl) and whether its signature is genuine.    *)
(* Two tokens signed for the same user at the same instant are the same    *)
(* string, as with HMAC-signed JWTs.                                       *)
(***************************************************************************)
EXTENDS Integers, Sequences, FiniteSets, TLC

UserIds == {"u1", "u2"}
ProductIds == {"p1", "p2"}

\* expiresIn: "15m" and the accessToken cookie's maxAge
AccessTtl == 15
\* expiresIn: "7d", the redis EX of the refresh token
RefreshTtl == 7 * 24 * 60

\* bounds of the model
MaxTicks == 2
MaxTokens == 4

----------------------------------------------------------------------------
(* Tokens and cookies *)

NoToken == [typ |-> "none", userId |-> "-", iat |-> 0, sig |-> FALSE]
\* Set-Cookie directives of a response that are not a token value
Keep == [typ |-> "keep", userId |-> "-", iat |-> 0, sig |-> FALSE]
Cleared == [typ |-> "cleared", userId |-> "-", iat |-> 0, sig |-> FALSE]

SignToken(typ, u, t) == [typ |-> typ, userId |-> u, iat |-> t, sig |-> TRUE]

Ttl(typ) == IF typ = "access" THEN AccessTtl ELSE RefreshTtl

\* generateToken: the pair signed for a user at time t
generateToken(u, t) ==
    [accessToken |-> SignToken("access", u, t),
     refreshToken |-> SignToken("refresh", u, t)]

\* jwt.verify(token, secret): the signature is checked first, then exp
JwtVerify(tok, typ, t) ==
    IF ~tok.sig \/ tok.typ # typ THEN "JsonWebTokenError"
    ELSE IF t >= tok.iat + Ttl(tok.typ) THEN "TokenExpiredError"
    ELSE "ok"

\* tokens a client can present without the server having signed them
ForgedTokens ==
    {[typ |-> ty, userId |-> u, iat |-> 0, sig |-> FALSE] :
        ty \in {"access", "refresh"}, u \in UserIds}

----------------------------------------------------------------------------
(* State *)

VARIABLES
    \* backend: session/token manager, request gate, catalog
    userState,      \* User collection: "none" | "active" | "removed" per id
    role,           \* role field of each user record
    redis,          \* refresh_token:<userId> entries
    now,            \* wall clock, minutes
    ticks,          \* number of clock advances so far
    issued,         \* every token the server has signed
    lastStored,     \* refresh token stored by the latest signup/login
    revoked,        \* a logout of the user completed since the last store
    products,       \* Product collection: "none" | "plain" | "featured"
    featuredCache,  \* redis key featured_products
    orders,         \* Order collection
    resp,           \* the response to the request just handled
    \* backend: cart aggregate
    cart,           \* cartItems of each user record
    cartResp,       \* the response to the cart request just handled
    \* backend: coupons and checkout
    coupons,        \* Coupon collection, in insertion order
    couponIds,      \* number of Coupon documents created so far
    sessions,       \* checkout sessions held by the payment gateway
    checkouts,      \* the createCheckoutSession requests, each with its position
    confirms,       \* the checkoutSuccess requests, each with its position
    couponResp,     \* the response to the coupon request just handled
    checkoutResp,   \* the createCheckoutSession request that ended last
    confirmResp,    \* the checkoutSuccess request that ended last
    \* backend: analytics
    series,         \* the array getDailySalesData returned last
    seriesRange,    \* the start and end dates it was called with
    \* backend: featured products, request by request
    featReqs,       \* the getFeaturedProducts and toggleFeaturedProduct requests
    featResp,       \* the one of them that ended last
    \* frontend: useUserStore and the axios response interceptor
    user,           \* store state user: "null" or "user"
    checkingAuth,   \* store state checkingAuth
    refreshPromise, \* the module-level in-flight marker
    promise,        \* state of the promise each refreshToken() call returned
    refreshReq,     \* the GET /auth/refresh-token behind each such promise
    reqPc,          \* where each request of the application stands
    reqKind,        \* "api", or "profile" for the request of checkAuth
    reqRetry,       \* originalRequest._retry
    reqAwait,       \* the promise an interceptor call is awaiting
    logoutCalls,    \* requests whose interceptor call invoked logout()
    logoutInFlight  \* POST /auth/logout requests not yet answered

authVars == <<userState, role, redis, now, ticks, issued, lastStored,
              revoked, products, featuredCache, orders, resp>>
cartVars == <<cart, cartResp>>
clientVars == <<user, checkingAuth, refreshPromise, promise, refreshReq,
                reqPc, reqKind, reqRetry, reqAwait, logoutCalls,
                logoutInFlight>>
authNoOrders == <<userState, role, redis, now, ticks, issued, lastStored,
                  revoked, products, featuredCache, resp>>
shopVars == <<coupons, couponIds, sessions, checkouts, confirms, couponResp,
              checkoutResp, confirmResp>>
authNoCatalog == <<userState, role, redis, now, ticks, issued, lastStored,
                   revoked, orders, resp>>
analyticsVars == <<series, seriesRange>>
featVars == <<featReqs, featResp>>
moreVars == <<analyticsVars, featVars>>
vars == <<authVars, cartVars, clientVars, shopVars, moreVars>>

NoEntry == [value |-> NoToken, expiresAt |-> 0]
NoCache == [present |-> FALSE, ids |-> {}]

\* redis.get of refresh_token:<u>: an entry past its EX is gone
RedisGet(store, u, t) ==
    IF store[u] # NoEntry /\ t < store[u].expiresAt
    THEN store[u].value ELSE NoToken

\* storeRefreshToken: redis.set(key, token, "EX", 7d)
storeRefreshToken(store, u, tok, t) ==
    [store EXCEPT ![u] = [value |-> tok, expiresAt |-> t + RefreshTtl]]

\* setCookies: both cookies are set
setCookies(accessToken, refreshToken) ==
    [accessToken |-> accessToken, refreshToken |-> refreshToken]

NoCookies == [accessToken |-> Keep, refreshToken |-> Keep]

NoResp == [op |-> "none", status |-> 0, cookieIn |-> NoToken,
           setCookie |-> NoCookies, principal |-> "-", ran |-> FALSE]

Response(op, status, cookieIn, setCookie, principal, ran) ==
    [op |-> op, status |-> status, cookieIn |-> cookieIn,
     setCookie |-> setCookie, principal |-> principal, ran |-> ran]

\* what a client may put in a cookie: nothing, a token the server signed,
\* or a token with a signature the server did not make
CookieInputs == {NoToken} \cup issued \cup ForgedTokens

----------------------------------------------------------------------------
(* Session/token manager: auth.controller.js *)

\* the cap on the tokens the model lets the server sign
CanIssue(toks) == Cardinality(issued \cup toks) <= MaxTokens

\* signup: 400 when the email is taken, else create the user, sign and
\* store the pair, set both cookies, 201
Signup(u) ==
    /\ userState[u] \in {"none", "active"}
    /\ IF userState[u] = "active"
       THEN /\ resp' = Response("signup", 400, NoToken, NoCookies, "-", FALSE)
            /\ UNCHANGED <<userState, redis, issued, lastStored, revoked>>
       ELSE LET t == generateToken(u, now) IN
            /\ CanIssue({t.accessToken, t.refreshToken})
            /\ userState' = [userState EXCEPT ![u] = "active"]
            /\ redis' = storeRefreshToken(redis, u, t.refreshToken, now)
            /\ issued' = issued \cup {t.accessToken, t.refreshToken}
            /\ lastStored' = [lastStored EXCEPT ![u] = t.refreshToken]
            /\ revoked' = [revoked EXCEPT ![u] = FALSE]
            /\ resp' = Response("signup", 201, NoToken,
                                setCookies(t.accessToken, t.refreshToken),
                                u, FALSE)
    /\ UNCHANGED <<role, now, ticks, products, featuredCache, orders>>
    /\ UNCHANGED <<cartVars, clientVars, shopVars, moreVars>>

\* login: the user is found and the password matches, or 401
Login(u, passwordOk) ==
    /\ IF userState[u] = "active" /\ passwordOk
       THEN LET t == generateToken(u, now) IN
            /\ CanIssue({t.accessToken, t.refreshToken})
            /\ redis' = storeRefreshToken(redis, u, t.refreshToken, now)
            /\ issued' = issued \cup {t.accessToken, t.refreshToken}
            /\ lastStored' = [lastStored EXCEPT ![u] = t.refreshToken]
            /\ revoked' = [revoked EXCEPT ![u] = FALSE]
            /\ resp' = Response("login", 200, NoToken,
                                setCookies(t.accessToken, t.refreshToken),
                                u, FALSE)
       ELSE /\ resp' = Response("login", 401, NoToken, NoCookies, "-", FALSE)
            /\ UNCHANGED <<redis, issued, lastStored, revoked>>
    /\ UNCHANGED <<userState, role, now, ticks, products, featuredCache,
                   orders>>
    /\ UNCHANGED <<cartVars, clientVars, shopVars, moreVars>>

\* a logout that forgets the redis.del
LogoutRedisMut(store, u) == store
\* redis.del of the key of the user the presented refresh token names
LogoutRedis(store, u) == [store EXCEPT ![u] = NoEntry]

\* logout: with a refreshToken cookie, verify it (a throw is a 500) and
\* delete the cache entry; then clear both cookies, 200
Logout(c) ==
    /\ c \in CookieInputs
    /\ IF c = NoToken
       THEN /\ resp' = Response("logout", 200, c,
                                setCookies(Cleared, Cleared), "-", FALSE)
            /\ UNCHANGED <<redis, revoked>>
       ELSE IF JwtVerify(c, "refresh", now) # "ok"
       THEN /\ resp' = Response("logout", 500, c, NoCookies, "-", FALSE)
            /\ UNCHANGED <<redis, revoked>>
       ELSE /\ redis' = LogoutRedis(redis, c.userId)
            /\ revoked' = [revoked EXCEPT ![c.userId] = TRUE]
            /\ resp' = Response("logout", 200, c,
                                setCookies(Cleared, Cleared), c.userId, FALSE)
    /\ UNCHANGED <<userState, role, now, ticks, issued, lastStored,
                   products, featuredCache, orders>>
    /\ UNCHANGED <<cartVars, clientVars, shopVars, moreVars>>

\* a comparison that only asks whether the user has a cached token
TokenMismatchMut(tok, stored) == stored = NoToken
\* refreshToken !== storedToken
TokenMismatch(tok, stored) == tok # stored

\* a refresh handler that sets both cookies, as setCookies does
RefreshCookiesMut(accessToken) ==
    setCookies(accessToken, SignToken("refresh", accessToken.userId,
                                      accessToken.iat))
\* the cookies the refresh handler sets: the access token alone
RefreshCookies(accessToken) ==
    [accessToken |-> accessToken, refreshToken |-> Keep]

\* refreshToken (POST refresh-token): status and the access token signed
refreshTokenOutcome(c, store, t) ==
    IF c = NoToken
    THEN [status |-> 401, accessToken |-> NoToken]
    ELSE IF JwtVerify(c, "refresh", t) # "ok"
    THEN [status |-> 500, accessToken |-> NoToken]
    ELSE IF TokenMismatch(c, RedisGet(store, c.userId, t))
    THEN [status |-> 401, accessToken |-> NoToken]
    ELSE [status |-> 200, accessToken |-> SignToken("access", c.userId, t)]

RefreshToken(c) ==
    /\ c \in CookieInputs
    /\ LET o == refreshTokenOutcome(c, redis, now) IN
       IF o.status = 200
       THEN /\ CanIssue({o.accessToken})
            /\ issued' = issued \cup {o.accessToken}
            /\ resp' = Response("refresh", 200, c,
                                RefreshCookies(o.accessToken), c.userId,
                                FALSE)
       ELSE /\ resp' = Response("refresh", o.status, c, NoCookies, "-",
                                FALSE)
            /\ UNCHANGED issued
    /\ UNCHANGED <<userState, role, redis, now, ticks, lastStored, revoked,
                   products, featuredCache, orders>>
    /\ UNCHANGED <<cartVars, clientVars, shopVars, moreVars>>

----------------------------------------------------------------------------
(* Request gate: auth.middleware.js; the handlers behind it *)

\* a gate that trusts the verified token without loading its user
protectRouteMut(c, t, ustate) ==
    IF c = NoToken \/ JwtVerify(c, "access", t) # "ok"
    THEN [status |-> 401, user |-> "-"]
    ELSE [status |-> 200, user |-> c.userId]

\* protectRoute: the user attached to the request as req.user, or a 401.
\* An expired token and any other verification failure differ only in the
\* message of the 401; so does a token whose user is not in the database.
protectRoute(c, t, ustate) ==
    IF c = NoToken
    THEN [status |-> 401, user |-> "-"]
    ELSE IF JwtVerify(c, "access", t) = "TokenExpiredError"
    THEN [status |-> 401, user |-> "-"]
    ELSE IF JwtVerify(c, "access", t) # "ok"
    THEN [status |-> 401, user |-> "-"]
    ELSE IF ustate[c.userId] # "active"
    THEN [status |-> 401, user |-> "-"]
    ELSE [status |-> 200, user |-> c.userId]

\* a role check that only asks for an authenticated user
adminRouteMut(reqUser, roles) == reqUser # "-"
\* adminRoute: req.user && req.user.role === "admin"
adminRoute(reqUser, roles) == reqUser # "-" /\ roles[reqUser] = "admin"

\* the routes registered with protectRoute, adminRoute
AdminOps == {"getAllProducts", "createProduct", "toggleFeaturedProduct",
             "deleteProduct", "analytics"}

\* the routes with an :id parameter; the others carry no product id
IdOps == {"toggleFeaturedProduct", "deleteProduct"}
NoId == "-"

Featured(prods) == {p \in ProductIds : prods[p] = "featured"}

\* updateFeaturedProductsCache: the cache entry becomes the current set
updateFeaturedProductsCache(prods) ==
    [present |-> TRUE, ids |-> Featured(prods)]

\* handlers whose deleteProduct refreshes the featured cache as well
AdminHandlerMut(op, p, prods, cache) ==
    CASE op = "createProduct" ->
           LET id == CHOOSE q \in ProductIds : prods[q] = "none" IN
           [status |-> 201, products |-> [prods EXCEPT ![id] = "plain"],
            cache |-> cache]
      [] op = "toggleFeaturedProduct" ->
           IF prods[p] \in {"plain", "featured"}
           THEN LET flipped == [prods EXCEPT ![p] =
                        IF prods[p] = "featured" THEN "plain" ELSE "featured"]
                IN [status |-> 200, products |-> flipped,
                    cache |-> updateFeaturedProductsCache(flipped)]
           ELSE [status |-> 404, products |-> prods, cache |-> cache]
      [] op = "deleteProduct" ->
           IF prods[p] \in {"plain", "featured"}
           THEN [status |-> 200, products |-> [prods EXCEPT ![p] = "deleted"],
                 cache |-> updateFeaturedProductsCache(
                              [prods EXCEPT ![p] = "deleted"])]
           ELSE [status |-> 404, products |-> prods, cache |-> cache]
      [] OTHER -> [status |-> 200, products |-> prods, cache |-> cache]

\* the handler of an admin route: status, catalog and cache after it ran
AdminHandler(op, p, prods, cache) ==
    CASE op = "createProduct" ->
           LET id == CHOOSE q \in ProductIds : prods[q] = "none" IN
           [status |-> 201, products |-> [prods EXCEPT ![id] = "plain"],
            cache |-> cache]
      [] op = "toggleFeaturedProduct" ->
           IF prods[p] \in {"plain", "featured"}
           THEN LET flipped == [prods EXCEPT ![p] =
                        IF prods[p] = "featured" THEN "plain" ELSE "featured"]
                IN [status |-> 200, products |-> flipped,
                    cache |-> updateFeaturedProductsCache(flipped)]
           ELSE [status |-> 404, products |-> prods, cache |-> cache]
      [] op = "deleteProduct" ->
           IF prods[p] \in {"plain", "featured"}
           THEN [status |-> 200, products |-> [prods EXCEPT ![p] = "deleted"],
                 cache |-> cache]
           ELSE [status |-> 404, products |-> prods, cache |-> cache]
      [] OTHER -> [status |-> 200, products |-> prods, cache |-> cache]

\* a gate that also asks for the user's entry in the refresh-token cache
ProfileRequestMut(c) ==
    /\ c \in CookieInputs
    /\ LET g == protectRoute(c, now, userState) IN
       resp' = IF g.status = 401 \/ redis[g.user] = NoEntry
               THEN Response("getProfile", 401, c, NoCookies, "-", FALSE)
               ELSE Response("getProfile", 200, c, NoCookies, g.user, TRUE)
    /\ UNCHANGED <<userState, role, redis, now, ticks, issued, lastStored,
                   revoked, products, featuredCache, orders>>
    /\ UNCHANGED <<cartVars, clientVars, shopVars, moreVars>>

\* GET /auth/profile behind protectRoute
ProfileRequest(c) ==
    /\ c \in CookieInputs
    /\ LET g == protectRoute(c, now, userState) IN
       resp' = IF g.status = 401
               THEN Response("getProfile", 401, c, NoCookies, "-", FALSE)
               ELSE Response("getProfile", 200, c, NoCookies, g.user, TRUE)
    /\ UNCHANGED <<userState, role, redis, now, ticks, issued, lastStored,
                   revoked, products, featuredCache, orders>>
    /\ UNCHANGED <<cartVars, clientVars, shopVars, moreVars>>

\* a request to one of the admin routes: protectRoute, adminRoute, handler
AdminRequest(op, c, p) ==
    /\ op \in AdminOps
    /\ c \in CookieInputs
    /\ IF op \in IdOps THEN p \in ProductIds ELSE p = NoId
    /\ op = "createProduct" => \E q \in ProductIds : products[q] = "none"
    /\ LET g == protectRoute(c, now, userState) IN
       IF g.status = 401
       THEN /\ resp' = Response(op, 401, c, NoCookies, "-", FALSE)
            /\ UNCHANGED <<products, featuredCache>>
       ELSE IF ~adminRoute(g.user, role)
       THEN /\ resp' = Response(op, 401, c, NoCookies, g.user, FALSE)
            /\ UNCHANGED <<products, featuredCache>>
       ELSE LET h == AdminHandler(op, p, products, featuredCache) IN
            /\ products' = h.products
            /\ featuredCache' = h.cache
            /\ resp' = Response(op, h.status, c, NoCookies, g.user, TRUE)
    /\ UNCHANGED <<userState, role, redis, now, ticks, issued, lastStored,
                   revoked, orders>>
    /\ UNCHANGED <<cartVars, clientVars, shopVars, moreVars>>

----------------------------------------------------------------------------
(* Cart aggregate: the cart handlers, on req.user.cartItems *)

\* schema default of a cart line's quantity
DefaultQuantity == 1
\* the largest quantity the model lets addToCart count up to
MaxQty == 3
\* the quantities a client sends in the body of PUT /cart/:id
QtyInputs == {-1, 0, 1, 2}

\* cartItems.find(item => item.id === productId): the first such line, or 0
FindItem(items, p) ==
    IF \E i \in DOMAIN items : items[i].id = p
    THEN CHOOSE i \in DOMAIN items :
            items[i].id = p /\ \A j \in 1..(i - 1) : items[j].id # p
    ELSE 0

\* cartItems.filter(item => item.id !== productId)
FilterOut(items, p) == SelectSeq(items, LAMBDA it : it.id # p)

\* an add that counts an existing line up by two
addToCartMut(items, p) ==
    IF FindItem(items, p) # 0
    THEN [items EXCEPT ![FindItem(items, p)].quantity = @ + 2]
    ELSE Append(items, [id |-> p, quantity |-> DefaultQuantity])
\* addToCart: increment the existing line, or push the product id, which
\* becomes a line with that id and the default quantity
addToCart(items, p) ==
    IF FindItem(items, p) # 0
    THEN [items EXCEPT ![FindItem(items, p)].quantity = @ + 1]
    ELSE Append(items, [id |-> p, quantity |-> DefaultQuantity])

\* an updateQuantity whose removal drops the first line, whichever it is
updateQuantityMut(items, p, q) ==
    IF q = 0
    THEN Tail(items)
    ELSE [items EXCEPT ![FindItem(items, p)].quantity = q]

\* updateQuantity, when the line exists: quantity === 0 removes it, any
\* other quantity is assigned to it
updateQuantity(items, p, q) ==
    IF q = 0
    THEN FilterOut(items, p)
    ELSE [items EXCEPT ![FindItem(items, p)].quantity = q]

\* removeAllFromCart: without a product id the cart is emptied
removeAllFromCart(items, p) ==
    IF p = NoId THEN <<>> ELSE FilterOut(items, p)

CartResponse(op, status, u, p, q, existed, body) ==
    [op |-> op, status |-> status, user |-> u, productId |-> p,
     quantity |-> q, existed |-> existed, body |-> body]

\* POST /cart
AddToCart(u, p) ==
    /\ userState[u] = "active"
    /\ FindItem(cart[u], p) # 0 => cart[u][FindItem(cart[u], p)].quantity < MaxQty
    /\ cart' = [cart EXCEPT ![u] = addToCart(cart[u], p)]
    /\ cartResp' = CartResponse("addToCart", 200, u, p, 0,
                                FindItem(cart[u], p) # 0, cart'[u])
    /\ UNCHANGED <<authVars, clientVars, shopVars, moreVars>>

\* PUT /cart/:id
UpdateQuantity(u, p, q) ==
    /\ userState[u] = "active"
    /\ IF FindItem(cart[u], p) # 0
       THEN /\ cart' = [cart EXCEPT ![u] = updateQuantity(cart[u], p, q)]
            /\ cartResp' = CartResponse("updateQuantity", 200, u, p, q, TRUE,
                                        cart'[u])
       ELSE /\ cartResp' = CartResponse("updateQuantity", 404, u, p, q, FALSE,
                                        <<>>)
            /\ UNCHANGED cart
    /\ UNCHANGED <<authVars, clientVars, shopVars, moreVars>>

\* DELETE /cart
RemoveAllFromCart(u, p) ==
    /\ userState[u] = "active"
    /\ cart' = [cart EXCEPT ![u] = removeAllFromCart(cart[u], p)]
    /\ cartResp' = CartResponse("removeAllFromCart", 200, u, p, 0,
                                FindItem(cart[u], p) # 0, cart'[u])
    /\ UNCHANGED <<authVars, clientVars, shopVars, moreVars>>

----------------------------------------------------------------------------
(* Coupons: coupon.controller.js and the Coupon collection.  The routes of  *)
(* this section are behind protectRoute; a request is made by a user whose  *)
(* token the gate accepted, req.user being that user's record.              *)

\* codes createNewCoupon can draw ("GIFT" and a random suffix), which are
\* also the codes a client can send; "" is a request without a code
CouponCodes == {"GIFT1", "GIFT2"}
NoCode == ""

\* the fields createNewCoupon gives a coupon
DiscountPercentage == 10
CouponTtl == 30 * 24 * 60

\* null, where a coupon document is expected
NoCoupon ==
    [id |-> 0, code |-> NoCode, userId |-> "-", discountPercentage |-> 0,
     expirationDate |-> 0, isActive |-> FALSE]

\* the document a findOne returns among the indexes the query matches: the
\* first in insertion order, 0 when none matches
FirstOf(matches) ==
    IF matches = {} THEN 0
    ELSE CHOOSE i \in matches : \A k \in matches : i <= k

\* Coupon.findOne({ userId, isActive: true })
FindActive(coll, u) ==
    FirstOf({k \in DOMAIN coll : coll[k].userId = u /\ coll[k].isActive})

\* Coupon.findOne({ code, userId, isActive: true })
FindActiveByCode(coll, code, u) ==
    FirstOf({k \in DOMAIN coll :
                coll[k].code = code /\ coll[k].userId = u /\ coll[k].isActive})

\* Coupon.findOneAndDelete({ userId })
FindOneAndDelete(coll, u) ==
    LET i == FirstOf({k \in DOMAIN coll : coll[k].userId = u})
    IN  IF i = 0 THEN coll
        ELSE SubSeq(coll, 1, i - 1) \o SubSeq(coll, i + 1, Len(coll))

\* Coupon.findOneAndUpdate({ code, userId }, { isActive: false })
Deactivate(coll, code, u) ==
    LET i == FirstOf({k \in DOMAIN coll :
                         coll[k].code = code /\ coll[k].userId = u})
    IN  IF i = 0 THEN coll ELSE [coll EXCEPT ![i].isActive = FALSE]

\* the index on code: a save is refused while an active coupon has the code
DuplicateCode(coll, code) ==
    \E i \in DOMAIN coll : coll[i].code = code /\ coll[i].isActive

\* the Coupon schema puts no index on userId: uniqueness per user is left to
\* the delete-then-create of the award
DuplicateOwner(coll, u) == FALSE

\* coupon.expirationDate < Date.now()
Expired(c, t) == c.expirationDate < t

NoCouponResp ==
    [op |-> "none", user |-> "-", code |-> NoCode, status |-> 0,
     coupon |-> NoCoupon]

\* getCoupon: the body is the user's active coupon, or null
getCoupon(coll, u) ==
    IF FindActive(coll, u) = 0 THEN NoCoupon ELSE coll[FindActive(coll, u)]

\* GET /coupon
GetCoupon(u) ==
    /\ userState[u] = "active"
    /\ couponResp' = [op |-> "getCoupon", user |-> u, code |-> NoCode,
                      status |-> 200, coupon |-> getCoupon(coupons, u)]
    /\ UNCHANGED <<coupons, couponIds, sessions, checkouts, confirms,
                   checkoutResp, confirmResp>>
    /\ UNCHANGED <<authVars, cartVars, clientVars, moreVars>>

\* a validateCoupon whose query forgets the owner
validateCouponMut(coll, code, u, t) ==
    LET i == FirstOf({k \in DOMAIN coll :
                         coll[k].code = code /\ coll[k].isActive})
    IN  IF i = 0 THEN [status |-> 404, coupon |-> NoCoupon]
        ELSE IF Expired(coll[i], t) THEN [status |-> 400, coupon |-> NoCoupon]
        ELSE [status |-> 200,
              coupon |-> [NoCoupon EXCEPT
                             !.code = coll[i].code,
                             !.discountPercentage = coll[i].discountPercentage]]

\* validateCoupon: 404 without an active coupon of the user with the code,
\* 400 when it has expired, else its code and discount percentage
validateCoupon(coll, code, u, t) ==
    LET i == FindActiveByCode(coll, code, u)
    IN  IF i = 0 THEN [status |-> 404, coupon |-> NoCoupon]
        ELSE IF Expired(coll[i], t) THEN [status |-> 400, coupon |-> NoCoupon]
        ELSE [status |-> 200,
              coupon |-> [NoCoupon EXCEPT
                             !.code = coll[i].code,
                             !.discountPercentage = coll[i].discountPercentage]]

\* POST /coupon/validate
ValidateCoupon(u, code) ==
    /\ userState[u] = "active"
    /\ couponResp' = [op |-> "validateCoupon", user |-> u, code |-> code,
                      status |-> validateCoupon(coupons, code, u, now).status,
                      coupon |-> validateCoupon(coupons, code, u, now).coupon]
    /\ UNCHANGED <<coupons, couponIds, sessions, checkouts, confirms,
                   checkoutResp, confirmResp>>
    /\ UNCHANGED <<authVars, cartVars, clientVars, moreVars>>

----------------------------------------------------------------------------
(* Checkout: payment.controller.js.  A handler runs up to its next await,   *)
(* where other requests may run; one action is one such stretch.            *)

\* the number of createCheckoutSession requests and of checkoutSuccess
\* requests
MaxCheckouts == 2
MaxConfirms == 2

\* the total at which a checkout awards a coupon, in minor units
AwardThreshold == 20000

\* Math.round(n / d) for d > 0: the nearest integer, halves upwards
MathRound(n, d) == (2 * n + d) \div (2 * d)

\* a line of the request body; price in thousandths of the currency unit
Line(p, price, q) == [id |-> p, price |-> price, quantity |-> q]

\* amount = Math.round(product.price * 100)
UnitAmount(line) == MathRound(line.price, 10)

\* totalAmount += amount * product.quantity, over the lines
RECURSIVE TotalAmount(_)
TotalAmount(lines) ==
    IF lines = <<>> THEN 0
    ELSE UnitAmount(Head(lines)) * Head(lines).quantity
         + TotalAmount(Tail(lines))

\* totalAmount = Math.round(totalAmount * coupon.discountPercentage / 100)
ApplyCoupon(total, pct) == MathRound(total * pct, 100)

\* amount / 100 as the response and the order carry it: units and hundredths
Div100(amount) == [units |-> amount \div 100, hundredths |-> amount % 100]

\* the quantity of a line item: product.quantity || 1
ItemQuantity(line) == IF line.quantity = 0 THEN 1 ELSE line.quantity

\* the sum of the line items handed to the gateway
RECURSIVE Subtotal(_)
Subtotal(lines) ==
    IF lines = <<>> THEN 0
    ELSE UnitAmount(Head(lines)) * ItemQuantity(Head(lines))
         + Subtotal(Tail(lines))

\* what the gateway charges for a session: the line items less the
\* percent_off of the session's discount
AmountTotal(lines, percentOff) ==
    Subtotal(lines) - MathRound(Subtotal(lines) * percentOff, 100)

\* metadata.products: id, quantity and price of each line
Metadata(lines) ==
    [i \in DOMAIN lines |->
        [id |-> lines[i].id, quantity |-> lines[i].quantity,
         price |-> lines[i].price]]

\* a createCheckoutSession request that has not answered
Checkout(u, lines, code, pc, total) ==
    [user |-> u, products |-> lines, couponCode |-> code, pc |-> pc,
     totalAmount |-> total, coupon |-> NoCoupon, session |-> 0,
     awarded |-> 0, status |-> 0, body |-> Div100(0)]

\* a request that has ended, of which only the answer is kept
EndedCheckout == Checkout("-", <<>>, NoCode, "ended", 0)

\* the request arrives: 400 for an empty product list, else the total of the
\* lines is computed and the coupon query, if a code came, is sent
StartCheckout(u, lines, code) ==
    /\ userState[u] = "active"
    /\ Len(checkouts) < MaxCheckouts
    /\ IF lines = <<>>
       THEN /\ checkouts' = Append(checkouts, EndedCheckout)
            /\ checkoutResp' = [Checkout(u, lines, code, "done", 0)
                                   EXCEPT !.status = 400]
       ELSE /\ checkouts' =
                 Append(checkouts,
                        Checkout(u, lines, code,
                                 IF code # NoCode THEN "findCoupon"
                                                  ELSE "createSession",
                                 TotalAmount(lines)))
            /\ UNCHANGED checkoutResp
    /\ UNCHANGED <<coupons, couponIds, sessions, confirms, couponResp,
                   confirmResp>>
    /\ UNCHANGED <<authVars, cartVars, clientVars, moreVars>>

\* the total after the coupon query has answered
PriceWithCoupon(total, coll, code, u) ==
    IF FindActiveByCode(coll, code, u) = 0 THEN total
    ELSE ApplyCoupon(total, coll[FindActiveByCode(coll, code, u)]
                                .discountPercentage)

\* Coupon.findOne answers
CheckoutFindCoupon(i) ==
    /\ i \in DOMAIN checkouts
    /\ checkouts[i].pc = "findCoupon"
    /\ LET r == checkouts[i]
           k == FindActiveByCode(coupons, r.couponCode, r.user)
       IN  checkouts' =
             [checkouts EXCEPT
                ![i].coupon = IF k = 0 THEN NoCoupon ELSE coupons[k],
                ![i].totalAmount =
                    PriceWithCoupon(r.totalAmount, coupons, r.couponCode, r.user),
                ![i].pc = "createSession"]
    /\ UNCHANGED <<coupons, couponIds, sessions, confirms, couponResp,
                   checkoutResp, confirmResp>>
    /\ UNCHANGED <<authVars, cartVars, clientVars, moreVars>>

\* the session the gateway creates for the request
NewSession(r) ==
    [userId |-> r.user, couponCode |-> r.couponCode,
     products |-> Metadata(r.products),
     percentOff |-> IF r.coupon = NoCoupon THEN 0
                    ELSE r.coupon.discountPercentage,
     amount_total |-> AmountTotal(r.products,
                                  IF r.coupon = NoCoupon THEN 0
                                  ELSE r.coupon.discountPercentage),
     payment_status |-> "unpaid"]

\* if (totalAmount >= 20000)
Awards(r) == r.totalAmount >= AwardThreshold

\* the gateway has created the session (and the gateway coupon before it):
\* the request goes on to award a coupon, or answers
CheckoutCreateSession(i) ==
    /\ i \in DOMAIN checkouts
    /\ checkouts[i].pc = "createSession"
    /\ sessions' = Append(sessions, NewSession(checkouts[i]))
    /\ IF Awards(checkouts[i])
       THEN /\ checkouts' = [checkouts EXCEPT ![i].session = Len(sessions'),
                                              ![i].pc = "awardDelete"]
            /\ UNCHANGED checkoutResp
       ELSE /\ checkouts' = [checkouts EXCEPT ![i] = EndedCheckout]
            /\ checkoutResp' =
                 [checkouts[i] EXCEPT !.session = Len(sessions'),
                                      !.pc = "done",
                                      !.status = 200,
                                      !.body = Div100(checkouts[i].totalAmount)]
    /\ UNCHANGED <<coupons, couponIds, confirms, couponResp, confirmResp>>
    /\ UNCHANGED <<authVars, cartVars, clientVars, moreVars>>

\* createNewCoupon, first await: Coupon.findOneAndDelete({ userId })
CheckoutAwardDelete(i) ==
    /\ i \in DOMAIN checkouts
    /\ checkouts[i].pc = "awardDelete"
    /\ coupons' = FindOneAndDelete(coupons, checkouts[i].user)
    /\ checkouts' = [checkouts EXCEPT ![i].pc = "awardSave"]
    /\ UNCHANGED <<couponIds, sessions, confirms, couponResp,
                   checkoutResp, confirmResp>>
    /\ UNCHANGED <<authVars, cartVars, clientVars, moreVars>>

\* the document createNewCoupon builds
NewCoupon(id, code, u, t) ==
    [id |-> id, code |-> code, userId |-> u,
     discountPercentage |-> DiscountPercentage,
     expirationDate |-> t + CouponTtl, isActive |-> TRUE]

\* createNewCoupon, second await: newCoupon.save(), then the answer; a save
\* the index on code refuses throws, which the handler answers with 500
CheckoutAwardSave(i, code) ==
    /\ i \in DOMAIN checkouts
    /\ checkouts[i].pc = "awardSave"
    /\ code \in CouponCodes
    /\ checkouts' = [checkouts EXCEPT ![i] = EndedCheckout]
    /\ IF \/ DuplicateCode(coupons, code)
          \/ DuplicateOwner(coupons, checkouts[i].user)
       THEN /\ checkoutResp' = [checkouts[i] EXCEPT !.pc = "done",
                                                    !.status = 500]
            /\ UNCHANGED <<coupons, couponIds>>
       ELSE /\ coupons' = Append(coupons,
                                 NewCoupon(couponIds + 1, code,
                                           checkouts[i].user, now))
            /\ couponIds' = couponIds + 1
            /\ checkoutResp' =
                 [checkouts[i] EXCEPT !.pc = "done",
                                      !.awarded = couponIds + 1,
                                      !.status = 200,
                                      !.body = Div100(checkouts[i].totalAmount)]
    /\ UNCHANGED <<sessions, confirms, couponResp, confirmResp>>
    /\ UNCHANGED <<authVars, cartVars, clientVars, moreVars>>

\* the customer pays the session at the gateway
Pay(s) ==
    /\ s \in DOMAIN sessions
    /\ sessions[s].payment_status = "unpaid"
    /\ sessions' = [sessions EXCEPT ![s].payment_status = "paid"]
    /\ UNCHANGED <<coupons, couponIds, checkouts, confirms, couponResp,
                   checkoutResp, confirmResp>>
    /\ UNCHANGED <<authVars, cartVars, clientVars, moreVars>>

\* a session id the gateway does not know
NoSession == 0

\* a checkoutSuccess request that has not answered
Confirm(s) == [sessionId |-> s, pc |-> "retrieve", status |-> 0, order |-> 0]

\* a request that has ended, of which only the answer is kept
EndedConfirm == [Confirm(NoSession) EXCEPT !.pc = "ended"]

\* the request arrives and asks the gateway for the session
StartConfirm(s) ==
    /\ Len(confirms) < MaxConfirms
    /\ s \in DOMAIN sessions \cup {NoSession}
    /\ confirms' = Append(confirms, Confirm(s))
    /\ UNCHANGED <<coupons, couponIds, sessions, checkouts, couponResp,
                   checkoutResp, confirmResp>>
    /\ UNCHANGED <<authVars, cartVars, clientVars, moreVars>>

\* a confirmation that goes on whatever the payment status
PaidMut(session) == session.payment_status \in {"paid", "unpaid"}

\* session.payment_status === "paid"
Paid(session) == session.payment_status = "paid"

\* stripe.checkout.sessions.retrieve answers: an unknown id throws (500); a
\* session that is not paid ends the handler without any answer; a paid one
\* sends the coupon update when the metadata names a coupon, else the save
ConfirmRetrieve(j) ==
    /\ j \in DOMAIN confirms
    /\ confirms[j].pc = "retrieve"
    /\ LET s == confirms[j].sessionId
       IN  IF s = NoSession
           THEN /\ confirms' = [confirms EXCEPT ![j] = EndedConfirm]
                /\ confirmResp' = [confirms[j] EXCEPT !.pc = "done",
                                                      !.status = 500]
           ELSE IF ~Paid(sessions[s])
           THEN /\ confirms' = [confirms EXCEPT ![j] = EndedConfirm]
                /\ confirmResp' = [confirms[j] EXCEPT !.pc = "unanswered"]
           ELSE /\ confirms' =
                     [confirms EXCEPT
                        ![j].pc = IF sessions[s].couponCode # NoCode
                                  THEN "deactivate" ELSE "save"]
                /\ UNCHANGED confirmResp
    /\ UNCHANGED <<coupons, couponIds, sessions, checkouts, couponResp,
                   checkoutResp, orders>>
    /\ UNCHANGED <<authNoOrders, cartVars, clientVars, moreVars>>

\* Coupon.findOneAndUpdate answers
ConfirmDeactivate(j) ==
    /\ j \in DOMAIN confirms
    /\ confirms[j].pc = "deactivate"
    /\ coupons' = Deactivate(coupons, sessions[confirms[j].sessionId].couponCode,
                             sessions[confirms[j].sessionId].userId)
    /\ confirms' = [confirms EXCEPT ![j].pc = "save"]
    /\ UNCHANGED <<couponIds, sessions, checkouts, couponResp, orders,
                   checkoutResp, confirmResp>>
    /\ UNCHANGED <<authNoOrders, cartVars, clientVars, moreVars>>

\* new Order({...}) from the session
NewOrder(id, s, session) ==
    [id |-> id, user |-> session.userId,
     products |-> [i \in DOMAIN session.products |->
                      [product |-> session.products[i].id,
                       quantity |-> session.products[i].quantity,
                       price |-> session.products[i].price]],
     totalAmount |-> Div100(session.amount_total),
     stripeSessionId |-> s,
     createdAt |-> now]

\* the validators of the Order schema
ValidOrder(o) ==
    /\ \A i \in DOMAIN o.products :
          o.products[i].quantity >= 1 /\ o.products[i].price >= 0
    /\ o.totalAmount.units >= 0

\* an Order collection without the index on stripeSessionId
DuplicateSessionMut(coll, s) == FALSE

\* the unique index on stripeSessionId
DuplicateSession(coll, s) == \E o \in coll : o.stripeSessionId = s

\* newOrder.save() answers: a document that fails validation or the unique
\* index throws (500), else the order is stored and the answer is 200
ConfirmSave(j) ==
    /\ j \in DOMAIN confirms
    /\ confirms[j].pc = "save"
    /\ LET s == confirms[j].sessionId
           o == NewOrder(Cardinality(orders) + 1, s, sessions[s])
       IN  IF ~ValidOrder(o) \/ DuplicateSession(orders, s)
           THEN /\ confirmResp' = [confirms[j] EXCEPT !.pc = "done",
                                                      !.status = 500]
                /\ UNCHANGED orders
           ELSE /\ orders' = orders \cup {o}
                /\ confirmResp' = [confirms[j] EXCEPT !.pc = "done",
                                                      !.status = 200,
                                                      !.order = o.id]
    /\ confirms' = [confirms EXCEPT ![j] = EndedConfirm]
    /\ UNCHANGED <<coupons, couponIds, sessions, checkouts, couponResp,
                   checkoutResp>>
    /\ UNCHANGED <<authNoOrders, cartVars, clientVars, moreVars>>

----------------------------------------------------------------------------
(* Analytics: analytics.controller.js.  Dates are instants in minutes; the  *)
(* calendar day of an instant is the one toISOString() and $dateToString    *)
(* give it, both in UTC.                                                    *)

MinutesPerDay == 24 * 60

\* new Date(t).toISOString().slice(0, 10), and the %Y-%m-%d of $dateToString
DayOf(t) == t \div MinutesPerDay

\* getDatesInRange: the day of currentDate is pushed and currentDate moved
\* on by one day, while currentDate <= endDate
RECURSIVE getDatesInRange(_, _)
getDatesInRange(currentDate, endDate) ==
    IF currentDate > endDate THEN <<>>
    ELSE <<DayOf(currentDate)>>
         \o getDatesInRange(currentDate + MinutesPerDay, endDate)

\* $match: the orders created from startDate to endDate
Matched(ords, startDate, endDate) ==
    {o \in ords : startDate <= o.createdAt /\ o.createdAt <= endDate}

\* $sum of totalAmount over a group, in hundredths
RECURSIVE SumHundredths(_)
SumHundredths(ords) ==
    IF ords = {} THEN 0
    ELSE LET o == CHOOSE x \in ords : TRUE
         IN  o.totalAmount.units * 100 + o.totalAmount.hundredths
             + SumHundredths(ords \ {o})

\* getDailySalesData: for each date of getDatesInRange the group of matched
\* orders of that day, counted and summed, or zeros when there is no group
getDailySalesData(ords, startDate, endDate) ==
    LET dates == getDatesInRange(startDate, endDate)
        group(d) == {o \in Matched(ords, startDate, endDate) :
                        DayOf(o.createdAt) = d}
    IN  [i \in DOMAIN dates |->
            [date |-> dates[i],
             sales |-> Cardinality(group(dates[i])),
             revenue |-> Div100(SumHundredths(group(dates[i])))]]

NoRange == [startDate |-> -1, endDate |-> -1]

\* the instants a caller passes: day 0 at 00:00 and at 23:00, day 1 at
\* 01:00, day 2 at 12:00
Instants == {0, 23 * 60, MinutesPerDay + 60, 2 * MinutesPerDay + 12 * 60}

\* an order as checkoutSuccess stores it, of one unit of p1 at the price
OrderAt(id, t, price) ==
    [id |-> id, user |-> "u1",
     products |-> <<[product |-> "p1", quantity |-> 1, price |-> price]>>,
     totalAmount |-> Div100(MathRound(price, 10)),
     stripeSessionId |-> id,
     createdAt |-> t]

\* orders the collection may hold: day 0 at 23:30, day 1 at 00:30 (twice),
\* day 2 at 10:00
StoredOrders ==
    {OrderAt(1, 23 * 60 + 30, 10000),
     OrderAt(2, MinutesPerDay + 30, 5000),
     OrderAt(3, MinutesPerDay + 30, 19990),
     OrderAt(4, 2 * MinutesPerDay + 10 * 60, 100000)}

\* a call of getDailySalesData
DailySales(startDate, endDate) ==
    /\ series' = getDailySalesData(orders, startDate, endDate)
    /\ seriesRange' = [startDate |-> startDate, endDate |-> endDate]
    /\ UNCHANGED <<authVars, cartVars, clientVars, shopVars, featVars>>

----------------------------------------------------------------------------
(* Featured products, request by request: getFeaturedProducts and           *)
(* toggleFeaturedProduct run up to their next await, where other requests   *)
(* may run; an awaited call either answers or throws.                       *)

\* the number of requests to the two routes
MaxFeatReqs == 2

\* a request in progress: doc is the product document findById returned,
\* found the result of Product.find({ isFeatured: true })
FeatReq(op, p, pc) ==
    [op |-> op, id |-> p, pc |-> pc, doc |-> "none", found |-> {},
     status |-> 0, body |-> {}]

\* a request that has ended, of which only the answer is kept
EndedFeat == FeatReq("none", NoId, "ended")

\* the handler has ended: with the status it answered, or 0 when it
\* returned without answering
FeatEnds(i, status, body) ==
    /\ featReqs' = [featReqs EXCEPT ![i] = EndedFeat]
    /\ featResp' = [featReqs[i] EXCEPT !.pc = "done", !.status = status,
                                       !.body = body]

\* GET /products/featured arrives and reads the cache key
StartGetFeatured ==
    /\ Len(featReqs) < MaxFeatReqs
    /\ featReqs' = Append(featReqs, FeatReq("getFeaturedProducts", NoId,
                                            "redisGet"))
    /\ UNCHANGED <<featResp, analyticsVars>>
    /\ UNCHANGED <<authVars, cartVars, clientVars, shopVars>>

\* redis.get answers: a value is parsed and returned, without one the
\* database is queried; a throw is answered with 500
FeatRedisGet(i, throws) ==
    /\ i \in DOMAIN featReqs
    /\ featReqs[i].pc = "redisGet"
    /\ IF throws THEN FeatEnds(i, 500, {})
       ELSE IF featuredCache.present THEN FeatEnds(i, 200, featuredCache.ids)
       ELSE /\ featReqs' = [featReqs EXCEPT ![i].pc = "find"]
            /\ UNCHANGED featResp
    /\ UNCHANGED <<authVars, cartVars, clientVars, shopVars, analyticsVars>>

\* Product.find({ isFeatured: true }) answers (an array, never falsy)
FeatFind(i, throws) ==
    /\ i \in DOMAIN featReqs
    /\ featReqs[i].pc = "find"
    /\ IF throws THEN FeatEnds(i, 500, {})
       ELSE /\ featReqs' = [featReqs EXCEPT ![i].found = Featured(products),
                                            ![i].pc = "redisSet"]
            /\ UNCHANGED featResp
    /\ UNCHANGED <<authVars, cartVars, clientVars, shopVars, analyticsVars>>

\* redis.set answers, and the products found are returned
FeatRedisSet(i, throws) ==
    /\ i \in DOMAIN featReqs
    /\ featReqs[i].pc = "redisSet"
    /\ IF throws
       THEN /\ FeatEnds(i, 500, {})
            /\ UNCHANGED featuredCache
       ELSE /\ featuredCache' = [present |-> TRUE, ids |-> featReqs[i].found]
            /\ FeatEnds(i, 200, featReqs[i].found)
    /\ UNCHANGED <<authNoCatalog, products>>
    /\ UNCHANGED <<cartVars, clientVars, shopVars, analyticsVars>>

\* PATCH /products/:id arrives (past the gate) and looks the product up
StartToggle(p) ==
    /\ p \in ProductIds
    /\ Len(featReqs) < MaxFeatReqs
    /\ featReqs' = Append(featReqs, FeatReq("toggleFeaturedProduct", p,
                                            "findById"))
    /\ UNCHANGED <<featResp, analyticsVars>>
    /\ UNCHANGED <<authVars, cartVars, clientVars, shopVars>>

\* the catch block of toggleFeaturedProduct: console.log, no answer
Caught(i) == FeatEnds(i, 0, {})

\* Product.findById answers: no product is answered with 404
ToggleFindById(i, throws) ==
    /\ i \in DOMAIN featReqs
    /\ featReqs[i].pc = "findById"
    /\ IF throws THEN Caught(i)
       ELSE IF products[featReqs[i].id] \notin {"plain", "featured"}
       THEN FeatEnds(i, 404, {})
       ELSE /\ featReqs' = [featReqs EXCEPT
                               ![i].doc = products[featReqs[i].id],
                               ![i].pc = "save"]
            /\ UNCHANGED featResp
    /\ UNCHANGED <<authVars, cartVars, clientVars, shopVars, analyticsVars>>

\* product.isFeatured = !product.isFeatured, on the document that was read
Flipped(doc) == IF doc = "featured" THEN "plain" ELSE "featured"

\* product.save() answers: the flag of the stored document becomes the one
\* set on the copy; a document deleted meanwhile makes save throw
ToggleSave(i, throws) ==
    /\ i \in DOMAIN featReqs
    /\ featReqs[i].pc = "save"
    /\ IF throws \/ products[featReqs[i].id] \notin {"plain", "featured"}
       THEN /\ Caught(i)
            /\ UNCHANGED products
       ELSE /\ products' = [products EXCEPT
                               ![featReqs[i].id] = Flipped(featReqs[i].doc)]
            /\ featReqs' = [featReqs EXCEPT ![i].pc = "cacheFind"]
            /\ UNCHANGED featResp
    /\ UNCHANGED <<authNoCatalog, featuredCache>>
    /\ UNCHANGED <<cartVars, clientVars, shopVars, analyticsVars>>

\* updateFeaturedProductsCache, Product.find answers; a throw is caught
\* inside it, and the toggle answers 200 with the cache as it was
ToggleCacheFind(i, throws) ==
    /\ i \in DOMAIN featReqs
    /\ featReqs[i].pc = "cacheFind"
    /\ IF throws THEN FeatEnds(i, 200, {featReqs[i].id})
       ELSE /\ featReqs' = [featReqs EXCEPT ![i].found = Featured(products),
                                            ![i].pc = "cacheSet"]
            /\ UNCHANGED featResp
    /\ UNCHANGED <<authVars, cartVars, clientVars, shopVars, analyticsVars>>

\* updateFeaturedProductsCache, redis.set answers (a throw is caught
\* inside it), and the toggle answers 200 with the updated product
ToggleCacheSet(i, throws) ==
    /\ i \in DOMAIN featReqs
    /\ featReqs[i].pc = "cacheSet"
    /\ IF throws THEN UNCHANGED featuredCache
       ELSE featuredCache' = [present |-> TRUE, ids |-> featReqs[i].found]
    /\ FeatEnds(i, 200, {featReqs[i].id})
    /\ UNCHANGED <<authNoCatalog, products>>
    /\ UNCHANGED <<cartVars, clientVars, shopVars, analyticsVars>>

----------------------------------------------------------------------------
(* Environment of the backend *)

\* time passes: long enough for an access token, or a refresh token and
\* its cache entry, to expire
Tick(d) ==
    /\ d \in {AccessTtl, RefreshTtl, CouponTtl}
    /\ ticks < MaxTicks
    /\ now' = now + d
    /\ ticks' = ticks + 1
    /\ resp' = NoResp
    /\ UNCHANGED <<userState, role, redis, issued, lastStored, revoked,
                   products, featuredCache, orders>>
    /\ UNCHANGED <<cartVars, clientVars, shopVars, moreVars>>

\* a user record is deleted outside the application (User.findById then
\* finds nothing for a token that still verifies)
UserRemoved(u) ==
    /\ userState[u] = "active"
    /\ userState' = [userState EXCEPT ![u] = "removed"]
    /\ resp' = NoResp
    /\ UNCHANGED <<role, redis, now, ticks, issued, lastStored, revoked,
                   products, featuredCache, orders>>
    /\ UNCHANGED <<cartVars, clientVars, shopVars, moreVars>>

----------------------------------------------------------------------------
(* Frontend: useUserStore.js.  One action is one task of the event loop:   *)
(* the arrival of a response together with every promise continuation it   *)
(* makes runnable, since those run before the next response is looked at.  *)

\* the number of requests the application issues
MaxReqs == 3
Reqs == 1..MaxReqs
\* refreshPromise = null; a promise is named by the request whose
\* interceptor call created it
NoPromise == 0

\* the statuses the refresh endpoint answers with
RefreshStatuses ==
    LET tok == SignToken("refresh", "u1", 0)
        store == storeRefreshToken([u \in UserIds |-> NoEntry], "u1", tok, 0)
    IN {refreshTokenOutcome(c, store, t).status :
           c \in {NoToken, tok, SignToken("refresh", "u2", 0)}
                 \cup ForgedTokens,
           t \in {0, RefreshTtl}}

\* the statuses any other endpoint answers with: those of the gate, and the
\* 500 of a handler's catch
ResponseStatuses ==
    {protectRoute(c, 0, [u \in UserIds |-> "active"]).status :
        c \in {NoToken, SignToken("access", "u1", 0)}} \cup {500}

\* an interceptor that never looks at the marker
AwaitInFlightMut(marker) == FALSE
\* if (refreshPromise): a refresh is taken to be in progress
AwaitInFlight(marker) == marker # NoPromise

\* the interceptor calls awaiting promise p
Awaiters(p) == {r \in Reqs : reqPc[r] = "awaiting" /\ reqAwait[r] = p}

\* a request is issued; checkAuth sets checkingAuth before its request
Send(r, kind) ==
    /\ reqPc[r] = "idle"
    /\ reqPc' = [reqPc EXCEPT ![r] = "sent"]
    /\ reqKind' = [reqKind EXCEPT ![r] = kind]
    /\ checkingAuth' = IF kind = "profile" THEN TRUE ELSE checkingAuth
    /\ UNCHANGED <<user, refreshPromise, promise, refreshReq, reqRetry,
                   reqAwait, logoutCalls, logoutInFlight>>
    /\ UNCHANGED <<authVars, cartVars, shopVars, moreVars>>

\* checkingAuth once a request of the given kind has settled: checkAuth
\* clears it after its own request, whatever the outcome
AfterSettle(kind, flag) == IF kind = "profile" THEN FALSE ELSE flag

\* the response to request r passes the interceptor
Respond(r, status) ==
    /\ reqPc[r] = "sent"
    /\ status \in ResponseStatuses
    /\ IF status = 200
       THEN \* (response) => response
            /\ reqPc' = [reqPc EXCEPT ![r] = "ok"]
            /\ checkingAuth' = AfterSettle(reqKind[r], checkingAuth)
            /\ user' = IF reqKind[r] = "profile" THEN "user" ELSE user
            /\ UNCHANGED <<refreshPromise, promise, refreshReq, reqRetry,
                           reqAwait, logoutCalls, logoutInFlight>>
       ELSE IF status # 401 \/ reqRetry[r]
       THEN \* not a 401, or a 401 of a request already retried: rejected
            /\ reqPc' = [reqPc EXCEPT ![r] = "rejected"]
            /\ checkingAuth' = AfterSettle(reqKind[r], checkingAuth)
            /\ user' = IF reqKind[r] = "profile" THEN "null" ELSE user
            /\ UNCHANGED <<refreshPromise, promise, refreshReq, reqRetry,
                           reqAwait, logoutCalls, logoutInFlight>>
       ELSE /\ reqRetry' = [reqRetry EXCEPT ![r] = TRUE]
            /\ IF AwaitInFlight(refreshPromise)
               THEN IF promise[refreshPromise] = "pending"
                    THEN \* await refreshPromise
                         /\ reqPc' = [reqPc EXCEPT ![r] = "awaiting"]
                         /\ reqAwait' = [reqAwait EXCEPT ![r] = refreshPromise]
                         /\ UNCHANGED <<user, checkingAuth, refreshPromise,
                                        promise, refreshReq, logoutCalls,
                                        logoutInFlight>>
                    ELSE IF promise[refreshPromise] = "rejected"
                    THEN \* the await throws at once: logout, reject
                         /\ reqPc' = [reqPc EXCEPT ![r] = "rejected"]
                         /\ logoutCalls' = logoutCalls \cup {r}
                         /\ logoutInFlight' = logoutInFlight \cup {r}
                         /\ checkingAuth' = AfterSettle(reqKind[r], checkingAuth)
                         /\ user' = IF reqKind[r] = "profile" THEN "null"
                                    ELSE user
                         /\ UNCHANGED <<refreshPromise, promise, refreshReq,
                                        reqAwait>>
                    ELSE \* the await returns at once: the request is re-sent
                         /\ UNCHANGED <<user, checkingAuth, refreshPromise,
                                        promise, refreshReq, reqPc, reqAwait,
                                        logoutCalls, logoutInFlight>>
               ELSE IF checkingAuth
               THEN \* refreshToken() returns without a request; the marker
                    \* is set and cleared, the request is re-sent
                    /\ promise' = [promise EXCEPT ![r] = "resolved"]
                    /\ refreshPromise' = NoPromise
                    /\ UNCHANGED <<user, checkingAuth, refreshReq, reqPc,
                                   reqAwait, logoutCalls, logoutInFlight>>
               ELSE \* refreshToken() sets checkingAuth and sends its request
                    /\ checkingAuth' = TRUE
                    /\ refreshReq' = [refreshReq EXCEPT ![r] = "sent"]
                    /\ promise' = [promise EXCEPT ![r] = "pending"]
                    /\ refreshPromise' = r
                    /\ reqPc' = [reqPc EXCEPT ![r] = "awaiting"]
                    /\ reqAwait' = [reqAwait EXCEPT ![r] = r]
                    /\ UNCHANGED <<user, logoutCalls, logoutInFlight>>
    /\ reqKind' = reqKind
    /\ (status # 401 \/ reqRetry[r]) => reqRetry' = reqRetry
    /\ UNCHANGED <<authVars, cartVars, shopVars, moreVars>>

\* the response to the refresh request behind promise p
RefreshRespond(p, status) ==
    /\ refreshReq[p] = "sent"
    /\ status \in RefreshStatuses
    /\ IF status = 200
       THEN \* refreshToken() returns; every awaiter re-sends its request,
            \* and the one that started the refresh clears the marker
            /\ refreshReq' = [refreshReq EXCEPT ![p] = "done"]
            /\ promise' = [promise EXCEPT ![p] = "resolved"]
            /\ checkingAuth' = FALSE
            /\ refreshPromise' = IF p \in Awaiters(p) THEN NoPromise
                                 ELSE refreshPromise
            /\ reqPc' = [r \in Reqs |->
                            IF r \in Awaiters(p) THEN "sent" ELSE reqPc[r]]
            /\ reqAwait' = [r \in Reqs |->
                            IF r \in Awaiters(p) THEN NoPromise
                            ELSE reqAwait[r]]
            /\ UNCHANGED <<user, logoutCalls, logoutInFlight>>
       ELSE IF status # 401
       THEN \* refreshToken() throws; every awaiter calls logout and
            \* rejects; the marker keeps the rejected promise
            /\ refreshReq' = [refreshReq EXCEPT ![p] = "done"]
            /\ promise' = [promise EXCEPT ![p] = "rejected"]
            /\ checkingAuth' = FALSE
            /\ user' = "null"
            /\ reqPc' = [r \in Reqs |->
                            IF r \in Awaiters(p) THEN "rejected"
                            ELSE reqPc[r]]
            /\ reqAwait' = [r \in Reqs |->
                            IF r \in Awaiters(p) THEN NoPromise
                            ELSE reqAwait[r]]
            /\ logoutCalls' = logoutCalls \cup Awaiters(p)
            /\ logoutInFlight' = logoutInFlight \cup Awaiters(p)
            /\ UNCHANGED refreshPromise
       ELSE \* the 401 of the refresh request passes the interceptor too
            IF AwaitInFlight(refreshPromise)
            THEN \* await refreshPromise: the promise that this very
                 \* request has to settle
                 /\ refreshReq' = [refreshReq EXCEPT ![p] = "stuck"]
                 /\ UNCHANGED <<user, checkingAuth, refreshPromise, promise,
                                reqPc, reqAwait, logoutCalls, logoutInFlight>>
            ELSE \* refreshToken() again: checkingAuth is set, it returns at
                 \* once and the refresh request is re-sent
                 /\ checkingAuth' = TRUE
                 /\ UNCHANGED <<user, refreshPromise, promise, refreshReq,
                                reqPc, reqAwait, logoutCalls, logoutInFlight>>
    /\ UNCHANGED <<reqKind, reqRetry>>
    /\ UNCHANGED <<authVars, cartVars, shopVars, moreVars>>

\* the response to a POST /auth/logout: logout() clears the user on success
LogoutRespond(r, status) ==
    /\ r \in logoutInFlight
    /\ status \in {200, 500}
    /\ logoutInFlight' = logoutInFlight \ {r}
    /\ user' = IF status = 200 THEN "null" ELSE user
    /\ UNCHANGED <<checkingAuth, refreshPromise, promise, refreshReq, reqPc,
                   reqKind, reqRetry, reqAwait, logoutCalls>>
    /\ UNCHANGED <<authVars, cartVars, shopVars, moreVars>>

----------------------------------------------------------------------------
(* Specifications *)

NoCart == [u \in UserIds |-> <<>>]
NoCartResp == CartResponse("none", 0, "-", NoId, 0, FALSE, <<>>)

\* the backend before any request, with the given users signed up; u1 has
\* been made an admin
BackendInit(signedUp) ==
    /\ userState = [u \in UserIds |-> IF u \in signedUp THEN "active" ELSE "none"]
    /\ role = [u \in UserIds |-> IF u = "u1" THEN "admin" ELSE "customer"]
    /\ redis = [u \in UserIds |-> NoEntry]
    /\ now = 0
    /\ ticks = 0
    /\ issued = {}
    /\ lastStored = [u \in UserIds |-> NoToken]
    /\ revoked = [u \in UserIds |-> FALSE]
    /\ products = [p \in ProductIds |-> IF p = "p1" THEN "plain" ELSE "none"]
    /\ featuredCache = NoCache
    /\ resp = NoResp

\* no coupon, no checkout session, no request to the coupon and payment routes
ShopInit ==
    /\ coupons = <<>>
    /\ couponIds = 0
    /\ sessions = <<>>
    /\ checkouts = <<>>
    /\ confirms = <<>>
    /\ couponResp = NoCouponResp
    /\ checkoutResp = EndedCheckout
    /\ confirmResp = EndedConfirm

\* no request to the featured routes
FeatInit ==
    /\ featReqs = <<>>
    /\ featResp = EndedFeat

\* the store as created, no request issued
ClientInit ==
    /\ user = "null"
    /\ checkingAuth = TRUE
    /\ refreshPromise = NoPromise
    /\ promise = [r \in Reqs |-> "none"]
    /\ refreshReq = [r \in Reqs |-> "none"]
    /\ reqPc = [r \in Reqs |-> "idle"]
    /\ reqKind = [r \in Reqs |-> "api"]
    /\ reqRetry = [r \in Reqs |-> FALSE]
    /\ reqAwait = [r \in Reqs |-> NoPromise]
    /\ logoutCalls = {}
    /\ logoutInFlight = {}

Init ==
    /\ BackendInit({"u1"})
    /\ cart = NoCart
    /\ cartResp = NoCartResp
    /\ orders = {}
    /\ ShopInit
    /\ series = <<>>
    /\ seriesRange = NoRange
    /\ FeatInit
    /\ ClientInit

\* the session/token manager
AuthNext ==
    \/ \E u \in UserIds : Signup(u)
    \/ \E u \in UserIds, ok \in BOOLEAN : Login(u, ok)
    \/ \E c \in CookieInputs : Logout(c)
    \/ \E c \in CookieInputs : RefreshToken(c)
    \/ \E d \in {AccessTtl, RefreshTtl} : Tick(d)

SpecAuth == Init /\ [][AuthNext]_vars

\* the request gate in front of a protected route
GateNext ==
    \/ \E u \in UserIds, ok \in BOOLEAN : Login(u, ok)
    \/ \E d \in {AccessTtl, RefreshTtl} : Tick(d)
    \/ \E u \in UserIds : UserRemoved(u)
    \/ \E c \in CookieInputs : ProfileRequest(c)

\* the admin routes of the catalog and of the analytics
AdminNext ==
    \/ \E u \in UserIds, ok \in BOOLEAN : Login(u, ok)
    \/ \E op \in AdminOps, c \in CookieInputs, p \in ProductIds \cup {NoId} :
          AdminRequest(op, c, p)

\* product lists of the requests: the lines 10.00 x 2 and 5.00 x 1, and a
\* list worth the threshold exactly
SmallList == <<Line("p1", 10000, 2), Line("p2", 5000, 1)>>
ThresholdList == <<Line("p1", 100000, 2)>>

\* a line sent with quantity 0
ZeroQuantityList == <<Line("p1", 100000, 0)>>

\* createCheckoutSession from the creation of the gateway session on
AwardSteps ==
    \/ \E i \in 1..MaxCheckouts : CheckoutCreateSession(i)
    \/ \E i \in 1..MaxCheckouts : CheckoutAwardDelete(i)
    \/ \E i \in 1..MaxCheckouts, code \in CouponCodes : CheckoutAwardSave(i, code)

\* createCheckoutSession after the request has arrived
CheckoutSteps ==
    \/ \E i \in 1..MaxCheckouts : CheckoutFindCoupon(i)
    \/ AwardSteps

\* checkoutSuccess, and the payment before it
ConfirmSteps ==
    \/ \E s \in 1..MaxCheckouts : Pay(s)
    \/ \E s \in 0..MaxCheckouts : StartConfirm(s)
    \/ \E j \in 1..MaxConfirms : ConfirmRetrieve(j)
    \/ \E j \in 1..MaxConfirms : ConfirmDeactivate(j)
    \/ \E j \in 1..MaxConfirms : ConfirmSave(j)

\* the requests of the pricing runs: u1 checks out the small list and the
\* threshold list, with and without a code, and a list worth ten times the
\* threshold with a code; u1 sends no products; u2 checks out with a code
PricingRequests ==
    ({"u1"} \X {SmallList, ThresholdList} \X {NoCode, "GIFT1"})
    \cup {<<"u1", <<Line("p1", 1000000, 2)>>, "GIFT1">>,
          <<"u1", <<>>, NoCode>>,
          <<"u2", ThresholdList, "GIFT1">>}

\* checkouts while coupons age
PricingNext ==
    \/ \E r \in PricingRequests : StartCheckout(r[1], r[2], r[3])
    \/ CheckoutSteps
    \/ Tick(CouponTtl)

\* the coupon routes, beside the checkouts (sent without a code) that award
\* the coupons
CouponNext ==
    \/ \E u \in UserIds : StartCheckout(u, ThresholdList, NoCode)
    \/ AwardSteps
    \/ Tick(CouponTtl)
    \/ \E u \in UserIds : GetCoupon(u)
    \/ \E u \in UserIds, code \in CouponCodes : ValidateCoupon(u, code)

\* payments and confirmations, in any interleaving, of the sessions of a
\* customer who checks out again once the previous checkout has answered
ConfirmNext ==
    \/ /\ \A i \in DOMAIN checkouts : checkouts[i].pc = "ended"
       /\ \E code \in {NoCode, "GIFT1"} :
             StartCheckout("u1", ThresholdList, code)
    \/ CheckoutSteps
    \/ ConfirmSteps

\* one customer's checkouts, payments and confirmations, each request sent
\* once the previous one has ended
OrderNext ==
    \/ /\ \A i \in DOMAIN checkouts : checkouts[i].pc = "ended"
       /\ \A j \in DOMAIN confirms : confirms[j].pc = "ended"
       /\ \E lines \in {ThresholdList, ZeroQuantityList},
             code \in {NoCode, "GIFT1"} : StartCheckout("u1", lines, code)
    \/ CheckoutSteps
    \/ \E s \in 1..MaxCheckouts : Pay(s)
    \/ /\ \A j \in DOMAIN confirms : confirms[j].pc = "ended"
       /\ \E s \in 0..MaxCheckouts : StartConfirm(s)
    \/ \E j \in 1..MaxConfirms : ConfirmRetrieve(j)
    \/ \E j \in 1..MaxConfirms : ConfirmDeactivate(j)
    \/ \E j \in 1..MaxConfirms : ConfirmSave(j)

\* the backend with some orders stored
AnalyticsInit ==
    /\ BackendInit(UserIds)
    /\ orders \in SUBSET StoredOrders
    /\ cart = NoCart
    /\ cartResp = NoCartResp
    /\ ShopInit
    /\ series = <<>>
    /\ seriesRange = NoRange
    /\ FeatInit
    /\ ClientInit

AnalyticsNext ==
    \E startDate \in Instants, endDate \in Instants :
       DailySales(startDate, endDate)

SpecAnalytics == AnalyticsInit /\ [][AnalyticsNext]_vars

GateInit ==
    /\ BackendInit(UserIds)
    /\ cart = NoCart
    /\ cartResp = NoCartResp
    /\ orders = {}
    /\ ShopInit
    /\ series = <<>>
    /\ seriesRange = NoRange
    /\ FeatInit
    /\ ClientInit

SpecGate == GateInit /\ [][GateNext]_vars

SpecAdmin == GateInit /\ [][AdminNext]_vars

\* the gate beside users who sign in and sign out
SessionNext ==
    \/ GateNext
    \/ \E c \in CookieInputs : Logout(c)

SpecSession == GateInit /\ [][SessionNext]_vars

\* the two featured routes, every awaited call answering or throwing
FeatNext ==
    \/ StartGetFeatured
    \/ \E p \in ProductIds : StartToggle(p)
    \/ \E i \in 1..MaxFeatReqs, throws \in BOOLEAN : FeatRedisGet(i, throws)
    \/ \E i \in 1..MaxFeatReqs, throws \in BOOLEAN : FeatFind(i, throws)
    \/ \E i \in 1..MaxFeatReqs, throws \in BOOLEAN : FeatRedisSet(i, throws)
    \/ \E i \in 1..MaxFeatReqs, throws \in BOOLEAN : ToggleFindById(i, throws)
    \/ \E i \in 1..MaxFeatReqs, throws \in BOOLEAN : ToggleSave(i, throws)
    \/ \E i \in 1..MaxFeatReqs, throws \in BOOLEAN : ToggleCacheFind(i, throws)
    \/ \E i \in 1..MaxFeatReqs, throws \in BOOLEAN : ToggleCacheSet(i, throws)

SpecFeat == GateInit /\ [][FeatNext]_vars

\* the steps of the featured requests while every awaited call answers
FeatSteps ==
    \/ \E i \in 1..MaxFeatReqs : FeatRedisGet(i, FALSE)
    \/ \E i \in 1..MaxFeatReqs : FeatFind(i, FALSE)
    \/ \E i \in 1..MaxFeatReqs : FeatRedisSet(i, FALSE)
    \/ \E i \in 1..MaxFeatReqs : ToggleFindById(i, FALSE)
    \/ \E i \in 1..MaxFeatReqs : ToggleSave(i, FALSE)
    \/ \E i \in 1..MaxFeatReqs : ToggleCacheFind(i, FALSE)
    \/ \E i \in 1..MaxFeatReqs : ToggleCacheSet(i, FALSE)

\* the two featured routes, requests arriving at any time
FeatRaceNext ==
    \/ StartGetFeatured
    \/ \E p \in ProductIds : StartToggle(p)
    \/ FeatSteps

SpecFeatRace == GateInit /\ [][FeatRaceNext]_vars

\* the backend once u1 was awarded the coupon GIFT1
RedeemInit ==
    /\ BackendInit(UserIds)
    /\ cart = NoCart
    /\ cartResp = NoCartResp
    /\ orders = {}
    /\ coupons = <<NewCoupon(1, "GIFT1", "u1", 0)>>
    /\ couponIds = 1
    /\ sessions = <<>>
    /\ checkouts = <<>>
    /\ confirms = <<>>
    /\ couponResp = NoCouponResp
    /\ checkoutResp = EndedCheckout
    /\ confirmResp = EndedConfirm
    /\ series = <<>>
    /\ seriesRange = NoRange
    /\ FeatInit
    /\ ClientInit

\* u1 checks out the small list with the code, one request after the
\* other, pays and confirms the sessions
RedeemNext ==
    \/ /\ \A i \in DOMAIN checkouts : checkouts[i].pc = "ended"
       /\ StartCheckout("u1", SmallList, "GIFT1")
    \/ \E i \in 1..MaxCheckouts : CheckoutFindCoupon(i)
    \/ \E i \in 1..MaxCheckouts : CheckoutCreateSession(i)
    \/ ConfirmSteps

SpecRedeem == RedeemInit /\ [][RedeemNext]_vars

\* the featured routes, a request arriving once the previous one has
\* ended, beside an administrator who signs in and creates and deletes
\* products at any time
CatalogNext ==
    \/ Login("u1", TRUE)
    \/ \E op \in {"createProduct", "deleteProduct"}, c \in CookieInputs,
          p \in ProductIds \cup {NoId} : AdminRequest(op, c, p)
    \/ /\ \A i \in DOMAIN featReqs : featReqs[i].pc = "ended"
       /\ StartGetFeatured
    \/ /\ \A i \in DOMAIN featReqs : featReqs[i].pc = "ended"
       /\ \E p \in ProductIds : StartToggle(p)
    \/ FeatSteps

SpecCatalog == GateInit /\ [][CatalogNext]_vars

\* the cart requests of the signed-up users
CartNext ==
    \/ \E u \in UserIds, p \in ProductIds : AddToCart(u, p)
    \/ \E u \in UserIds, p \in ProductIds, q \in QtyInputs :
          UpdateQuantity(u, p, q)
    \/ \E u \in UserIds, p \in ProductIds \cup {NoId} :
          RemoveAllFromCart(u, p)

SpecCoupon == GateInit /\ [][CouponNext]_vars
SpecCheckout == GateInit /\ [][PricingNext]_vars
SpecConfirm == GateInit /\ [][ConfirmNext]_vars
SpecOrder == GateInit /\ [][OrderNext]_vars
SpecCart == GateInit /\ [][CartNext]_vars

\* the frontend: requests, their responses, the refresh and the logout
ClientNext ==
    \/ \E r \in Reqs, kind \in {"api", "profile"} : Send(r, kind)
    \/ \E r \in Reqs, status \in ResponseStatuses : Respond(r, status)
    \/ \E p \in Reqs, status \in RefreshStatuses : RefreshRespond(p, status)
    \/ \E r \in Reqs, status \in {200, 500} : LogoutRespond(r, status)

SpecClient == Init /\ [][ClientNext]_vars

\* every request sent is answered
ClientFairness ==
    /\ \A r \in Reqs : WF_vars(\E status \in ResponseStatuses : Respond(r, status))
    /\ \A p \in Reqs : WF_vars(\E status \in RefreshStatuses : RefreshRespond(p, status))
    /\ \A r \in Reqs : WF_vars(\E status \in {200, 500} : LogoutRespond(r, status))

FairSpecClient == Init /\ [][ClientNext]_vars /\ ClientFairness

----------------------------------------------------------------------------
(* Claims about the frontend, checked under SpecClient and FairSpecClient *)

\* the refresh requests sent whose refreshToken() call has not returned
OutstandingRefreshes == {p \in Reqs : refreshReq[p] \in {"sent", "stuck"}}

\* C1: at most one refresh-token request is outstanding at any time, and a
\* request whose 401 arrives while a refresh is outstanding starts no second
\* refresh but awaits the outstanding one.
C1_SingleFlightRefresh ==
    /\ [](Cardinality(OutstandingRefreshes) <= 1)
    /\ [][\A r \in Reqs :
            (/\ reqPc[r] = "sent"
             /\ ~reqRetry[r]
             /\ reqRetry'[r]
             /\ OutstandingRefreshes # {})
              => /\ refreshReq' = refreshReq
                 /\ reqPc'[r] = "awaiting"
                 /\ reqAwait'[r] \in OutstandingRefreshes]_vars

\* two requests await the one refresh that is in flight
C1_Witness ==
    \E p \in Reqs :
        /\ refreshReq[p] = "sent"
        /\ OutstandingRefreshes = {p}
        /\ Cardinality(Awaiters(p)) >= 2

\* C2: when the refresh request fails, also when the refresh endpoint
\* answers 401, every request awaiting that refresh is eventually rejected
\* with logout invoked; no interceptor call waits forever.
C2_FailedRefreshRejectsWaiters ==
    \A r \in Reqs :
        (reqPc[r] = "awaiting" /\ refreshReq[reqAwait[r]] # "sent")
            ~> (reqPc[r] = "rejected" /\ r \in logoutCalls)

----------------------------------------------------------------------------
(* Claims about the session/token manager, checked under SpecAuth *)

\* the refresh request just answered presented a refresh token that
\* verifies and equals the cached value of its user
PresentedCachedToken ==
    /\ resp.op = "refresh"
    /\ resp.cookieIn.typ = "refresh"
    /\ resp.cookieIn.sig
    /\ now < resp.cookieIn.iat + RefreshTtl
    /\ redis[resp.cookieIn.userId].value = resp.cookieIn
    /\ now < redis[resp.cookieIn.userId].expiresAt

\* C3: rotateAccess with a validly signed, unexpired refresh token equal to
\* the cached value of its user answers 200 with a new access token for that
\* user, and changes neither the cache entry (token and expiry) nor the
\* refreshToken cookie.
C3_RotateKeepsRefresh ==
    [][(resp'.op = "refresh" /\ PresentedCachedToken')
          => /\ resp'.status = 200
             /\ resp'.setCookie.accessToken.typ = "access"
             /\ resp'.setCookie.accessToken.sig
             /\ resp'.setCookie.accessToken.userId = resp'.cookieIn.userId
             /\ resp'.setCookie.accessToken.iat = now'
             /\ resp'.setCookie.refreshToken = Keep
             /\ redis' = redis]_vars

\* a rotation some time after the login that stored the token
C3_Witness ==
    /\ PresentedCachedToken
    /\ resp.status = 200
    /\ resp.setCookie.accessToken.iat > resp.cookieIn.iat

\* the refresh token presented has an invalid signature, is expired, or
\* differs from the cached value
RefreshFailureCondition ==
    /\ resp.op = "refresh"
    /\ resp.cookieIn # NoToken
    /\ \/ ~resp.cookieIn.sig
       \/ resp.cookieIn.typ # "refresh"
       \/ now >= resp.cookieIn.iat + RefreshTtl
       \/ redis[resp.cookieIn.userId].value # resp.cookieIn
       \/ now >= redis[resp.cookieIn.userId].expiresAt

\* C4: each failure condition of rotateAccess (invalid signature, expired
\* token, token different from the cached value) is answered 401, and no
\* access token is issued.
C4_FailuresAreUnauthorized ==
    RefreshFailureCondition
        => resp.status = 401 /\ resp.setCookie.accessToken = Keep

\* C5: rotateAccess succeeds only for the refresh token stored by the most
\* recent signup or login of its user; any other refresh token of the user
\* is rejected.
C5_OnlyLastStoredAccepted ==
    (resp.op = "refresh" /\ resp.cookieIn # NoToken)
        => (resp.status = 200
               => resp.cookieIn = lastStored[resp.cookieIn.userId])

\* an unexpired refresh token of an earlier login is presented after a
\* later login of the same user, and is rejected
C5_Witness ==
    /\ resp.op = "refresh"
    /\ resp.cookieIn \in issued
    /\ resp.cookieIn.typ = "refresh"
    /\ now < resp.cookieIn.iat + RefreshTtl
    /\ lastStored[resp.cookieIn.userId] # NoToken
    /\ resp.cookieIn # lastStored[resp.cookieIn.userId]
    /\ resp.status = 401

\* C6: once a logout of user u has completed, rotateAccess fails for every
\* refresh token of u until a signup or login of u stores a new one.
C6_RevokedUntilNextLogin ==
    (resp.op = "refresh" /\ resp.cookieIn # NoToken
        /\ revoked[resp.cookieIn.userId])
        => resp.status # 200 /\ resp.setCookie.accessToken = Keep

\* after a logout the user's last stored, still unexpired refresh token is
\* presented and refused
C6_Witness ==
    /\ resp.op = "refresh"
    /\ resp.cookieIn.typ = "refresh"
    /\ revoked[resp.cookieIn.userId]
    /\ resp.cookieIn = lastStored[resp.cookieIn.userId]
    /\ now < resp.cookieIn.iat + RefreshTtl
    /\ resp.status = 401

----------------------------------------------------------------------------
(* Claims about the request gate, checked under SpecGate and SpecAdmin *)

\* the access token of the request just answered has a valid signature, is
\* unexpired, and names a user in the database
GoodAccessToken ==
    /\ resp.cookieIn.typ = "access"
    /\ resp.cookieIn.sig
    /\ now < resp.cookieIn.iat + AccessTtl
    /\ userState[resp.cookieIn.userId] = "active"

\* C7: a protected handler runs only when the request carries an access
\* token with a valid signature that is unexpired and whose user exists, and
\* then runs with that user as principal; in every other case the response
\* is 401 and the handler is not invoked.
C7_GateAdmitsOnlyValidTokens ==
    resp.op = "getProfile"
        => IF GoodAccessToken
           THEN resp.ran /\ resp.principal = resp.cookieIn.userId
           ELSE resp.status = 401 /\ ~resp.ran

\* a token that verifies but whose user is gone is turned away
C7_Witness ==
    /\ resp.op = "getProfile"
    /\ resp.cookieIn.typ = "access"
    /\ resp.cookieIn.sig
    /\ now < resp.cookieIn.iat + AccessTtl
    /\ userState[resp.cookieIn.userId] = "removed"
    /\ resp.status = 401

\* C8: an admin-only operation executes only when the authenticated
\* principal has role admin; for any other principal the response is 401 and
\* catalog, cache and orders are unchanged.
C8_AdminOnly ==
    [][resp'.op \in AdminOps
          => IF resp'.principal # "-" /\ role[resp'.principal] = "admin"
             THEN resp'.ran
             ELSE /\ resp'.status = 401
                  /\ ~resp'.ran
                  /\ products' = products
                  /\ featuredCache' = featuredCache
                  /\ orders' = orders]_vars

\* an authenticated customer asks for a catalog change and is refused
C8_Witness ==
    /\ resp.op = "toggleFeaturedProduct"
    /\ resp.principal # "-"
    /\ role[resp.principal] = "customer"
    /\ resp.status = 401
    /\ products["p1"] = "featured"

----------------------------------------------------------------------------
(* Claims about the cart aggregate, checked under SpecCart *)

\* C9: after any sequence of add, setQuantity and clear requests, with any
\* quantity a client may send, every line of a user's cart has quantity >= 1.
C9_QuantityAtLeastOne ==
    \A u \in UserIds : \A i \in DOMAIN cart[u] : cart[u][i].quantity >= 1

\* the quantity of the line of product p in a cart, 0 when there is none
QuantityOf(items, p) ==
    IF FindItem(items, p) = 0 THEN 0 ELSE items[FindItem(items, p)].quantity

\* add(p) as the claim describes it: from the cart before to the cart after
AddStepAsClaimed(old, new, p) ==
    IF \E i \in DOMAIN old : old[i].id = p
    THEN /\ Len(new) = Len(old)
         /\ \A i \in DOMAIN old :
               new[i] = IF old[i].id = p
                        THEN [id |-> p, quantity |-> old[i].quantity + 1]
                        ELSE old[i]
    ELSE new = old \o <<[id |-> p, quantity |-> 1]>>

\* C10: add(p) increases the quantity of an existing line for p by exactly
\* 1, otherwise appends a new line for p with quantity 1, and leaves every
\* other line (and every other cart) unchanged; so two adds of p in a row on
\* a cart without p leave the line for p with quantity 2.
C10_AddIncrementsOrAppends ==
    /\ [][cartResp'.op = "addToCart"
            => /\ AddStepAsClaimed(cart[cartResp'.user], cart'[cartResp'.user],
                                   cartResp'.productId)
               /\ \A v \in UserIds \ {cartResp'.user} : cart'[v] = cart[v]]_vars
    /\ [][(/\ cartResp.op = "addToCart"
           /\ ~cartResp.existed
           /\ cartResp'.op = "addToCart"
           /\ cartResp'.user = cartResp.user
           /\ cartResp'.productId = cartResp.productId)
            => QuantityOf(cart'[cartResp'.user], cartResp'.productId) = 2]_vars

\* the second of two adds in a row has found the line of the first, behind
\* a line of another product
C10_Witness ==
    /\ cartResp.op = "addToCart"
    /\ cartResp.existed
    /\ Len(cart[cartResp.user]) = 2
    /\ cart[cartResp.user][2] = [id |-> cartResp.productId, quantity |-> 2]

\* setQuantity(p, q) as the claim describes it, from the cart before to the
\* cart after, when a line for p exists
SetQuantityStepAsClaimed(old, new, p, q) ==
    IF q = 0
    THEN new = SelectSeq(old, LAMBDA it : it.id # p)
    ELSE /\ Len(new) = Len(old)
         /\ \A i \in DOMAIN old :
               new[i] = IF old[i].id = p
                        THEN [id |-> p, quantity |-> q]
                        ELSE old[i]

\* C11: setQuantity(p, q) on a cart with a line for p removes exactly that
\* line when q = 0 and overwrites its quantity with q when q > 0, leaving the
\* other lines (and the other carts) unchanged; on a cart without a line for
\* p it answers 404 and leaves the cart unchanged.
C11_SetQuantitySemantics ==
    [][cartResp'.op = "updateQuantity"
         => /\ IF \E i \in DOMAIN cart[cartResp'.user] :
                     cart[cartResp'.user][i].id = cartResp'.productId
               THEN /\ cartResp'.status = 200
                    /\ cartResp'.quantity >= 0
                         => SetQuantityStepAsClaimed(cart[cartResp'.user],
                                                     cart'[cartResp'.user],
                                                     cartResp'.productId,
                                                     cartResp'.quantity)
               ELSE /\ cartResp'.status = 404
                    /\ cart'[cartResp'.user] = cart[cartResp'.user]
            /\ \A v \in UserIds \ {cartResp'.user} : cart'[v] = cart[v]]_vars

\* a setQuantity with 0 has removed the second of two lines and kept the
\* first one
C11_Witness ==
    /\ cartResp.op = "updateQuantity"
    /\ cartResp.status = 200
    /\ cartResp.quantity = 0
    /\ cartResp.productId = "p2"
    /\ Len(cart[cartResp.user]) = 1
    /\ cart[cartResp.user][1].id = "p1"

----------------------------------------------------------------------------
(* Claims about the coupon routes, checked under SpecCoupon *)

\* the active coupons with the code that the user owns
OwnedActive(coll, code, u) ==
    {i \in DOMAIN coll :
        coll[i].code = code /\ coll[i].userId = u /\ coll[i].isActive}

\* C12: validate(code) called by user u answers not-found whenever u owns no
\* active coupon with that code, also when another user owns an active
\* coupon with it; the code and discount percentage it answers with are
\* those of a coupon of u, never those of another user's coupon.
C12_ValidateOnlyOwnCoupons ==
    [][(couponResp' # couponResp /\ couponResp'.op = "validateCoupon")
         => LET owned == OwnedActive(coupons, couponResp'.code, couponResp'.user)
            IN  /\ owned = {} => /\ couponResp'.status = 404
                                 /\ couponResp'.coupon = NoCoupon
                /\ couponResp'.coupon # NoCoupon
                     => /\ couponResp'.status = 200
                        /\ \E i \in owned :
                              /\ couponResp'.coupon.code = coupons[i].code
                              /\ couponResp'.coupon.discountPercentage
                                    = coupons[i].discountPercentage]_vars

\* a user has been answered not-found for a code under which another user
\* holds an active, unexpired coupon
C12_Witness ==
    /\ couponResp.op = "validateCoupon"
    /\ couponResp.status = 404
    /\ \E i \in DOMAIN coupons :
          /\ coupons[i].code = couponResp.code
          /\ coupons[i].userId # couponResp.user
          /\ coupons[i].isActive
          /\ ~Expired(coupons[i], now)

\* C13: every coupon the coupon routes deliver (GET coupon, a successful
\* validate) is null or a coupon that is active and whose expiration
\* timestamp has not passed.
C13_DeliveredCouponsAreValid ==
    [][(couponResp' # couponResp /\ couponResp'.status = 200)
         => \/ couponResp'.coupon = NoCoupon
            \/ \E i \in DOMAIN coupons :
                  /\ coupons[i].userId = couponResp'.user
                  /\ coupons[i].code = couponResp'.coupon.code
                  /\ coupons[i].isActive
                  /\ ~Expired(coupons[i], now)]_vars

----------------------------------------------------------------------------
(* Claims about createCheckoutSession, checked under SpecCheckout *)

\* C14: a createCheckoutSession that answers has awarded a new coupon if and
\* only if the pre-discount total, the sum over the lines of
\* round(price * 100) * quantity, is at least 20000 minor units, whether or
\* not a coupon was applied in the same checkout.
C14_AwardIffPreDiscountTotal ==
    checkoutResp.status = 200
      => (checkoutResp.awarded # 0
            <=> TotalAmount(checkoutResp.products) >= AwardThreshold)

\* the active coupons of a user
ActiveOf(coll, u) ==
    {i \in DOMAIN coll : coll[i].userId = u /\ coll[i].isActive}

\* C15: in every reachable state, those reached by interleaving two
\* createCheckoutSession requests of one user that both award included, each
\* user has at most one active coupon; when an award completes the user has
\* exactly one active coupon, the newly generated one.
C15_OneActiveCouponPerUser ==
    /\ [](\A u \in UserIds : Cardinality(ActiveOf(coupons, u)) <= 1)
    /\ [][(checkoutResp' # checkoutResp /\ checkoutResp'.awarded # 0)
            => \E i \in DOMAIN coupons' :
                  /\ coupons'[i].id = checkoutResp'.awarded
                  /\ ActiveOf(coupons', checkoutResp'.user) = {i}]_vars

\* C16: the total a createCheckoutSession computes and returns is the
\* pre-discount total reduced by d percent, pre - round(pre * d / 100), when
\* an active coupon of the requesting user with percentage d matched the
\* code, and the pre-discount total when none did.
C16_ReturnedTotal ==
    checkoutResp.status = 200
      => LET pre == TotalAmount(checkoutResp.products)
             d == checkoutResp.coupon.discountPercentage
         IN  /\ checkoutResp.totalAmount
                  = IF checkoutResp.coupon = NoCoupon THEN pre
                    ELSE pre - MathRound(pre * d, 100)
             /\ checkoutResp.body = Div100(checkoutResp.totalAmount)

\* C17: in the pricing step a code that is unknown (no active coupon of the
\* requester has it) or whose coupon has expired is ignored: the step raises
\* no error and leaves the total as it was, and the gateway session of the
\* request carries no discount.
C17_UnknownOrExpiredCodeIgnored ==
    [][\A i \in DOMAIN checkouts :
         /\ (/\ checkouts[i].pc = "findCoupon"
             /\ checkouts'[i] # checkouts[i]
             /\ \A k \in OwnedActive(coupons, checkouts[i].couponCode,
                                      checkouts[i].user) :
                   Expired(coupons[k], now))
              => /\ checkouts'[i].pc = "createSession"
                 /\ checkouts'[i].totalAmount = checkouts[i].totalAmount
                 /\ checkouts'[i].coupon = NoCoupon
         /\ (/\ checkouts[i].pc = "createSession"
             /\ checkouts'[i] # checkouts[i]
             /\ checkouts[i].coupon = NoCoupon)
              => sessions'[Len(sessions')].percentOff = 0]_vars

----------------------------------------------------------------------------
(* Claims about checkoutSuccess, checked under SpecConfirm and SpecOrder *)

\* the step is one of a confirmation that holds a paid session and stands at pc
PaidConfirmationAt(pc) ==
    \E j \in DOMAIN confirms :
       /\ confirms[j].pc = pc
       /\ confirms'[j] # confirms[j]
       /\ sessions[confirms[j].sessionId].payment_status = "paid"

\* the step makes an active coupon inactive
DeactivatesSome ==
    \E i \in DOMAIN coupons, k \in DOMAIN coupons' :
       /\ coupons[i].isActive
       /\ coupons'[k].id = coupons[i].id
       /\ ~coupons'[k].isActive

\* C18: an Order is created, and a coupon deactivated, only by a
\* confirmation whose gateway session has payment status paid; a
\* confirmation for a session in another status changes neither orders nor
\* coupons; and no operation modifies or deletes an existing Order.
C18_OnlyPaidConfirmationsWrite ==
    [][/\ orders \subseteq orders'
       /\ orders' # orders => PaidConfirmationAt("save")
       /\ DeactivatesSome => PaidConfirmationAt("deactivate")
       /\ \A j \in DOMAIN confirms :
             (/\ confirms'[j] # confirms[j]
              /\ confirms[j].sessionId # NoSession
              /\ sessions[confirms[j].sessionId].payment_status # "paid")
               => /\ orders' = orders
                  /\ coupons' = coupons
                  /\ confirms'[j] = EndedConfirm]_vars

\* a confirmation of an unpaid session has ended without an answer, beside
\* an order and a coupon that it left as they were
C18_Witness ==
    /\ confirmResp.pc = "unanswered"
    /\ sessions[confirmResp.sessionId].payment_status = "unpaid"
    /\ sessions[confirmResp.sessionId].couponCode # NoCode
    /\ orders # {}
    /\ \E i \in DOMAIN coupons :
          /\ coupons[i].code = sessions[confirmResp.sessionId].couponCode
          /\ coupons[i].isActive

\* C19: after any sequence or interleaving of confirmations, repeated and
\* concurrent ones of one session id included, at most one Order exists per
\* payment-session id.
C19_OneOrderPerSession ==
    \A o1, o2 \in orders : o1.stripeSessionId = o2.stripeSessionId => o1 = o2

\* a second confirmation of a session was refused by the index while the
\* first one's order stands
C19_Witness ==
    /\ confirmResp.status = 500
    /\ confirmResp.sessionId # NoSession
    /\ Cardinality({o \in orders :
                       o.stripeSessionId = confirmResp.sessionId}) = 1

\* the order a confirmation of the session is to create
OrderAsClaimed(o, s) ==
    /\ o.stripeSessionId = s
    /\ o.user = sessions[s].userId
    /\ DOMAIN o.products = DOMAIN sessions[s].products
    /\ \A i \in DOMAIN o.products :
          /\ o.products[i].product = sessions[s].products[i].id
          /\ o.products[i].quantity = sessions[s].products[i].quantity
          /\ o.products[i].price = sessions[s].products[i].price
    /\ o.totalAmount = Div100(sessions[s].amount_total)

\* C20: a confirmation for a paid session creates exactly one Order, whose
\* user and product lines are those of the session metadata and whose total
\* is the amount the gateway charged, and deactivates the coupon the
\* metadata names, if any.
C20_PaidConfirmationCreatesOrder ==
    [][\A j \in DOMAIN confirms :
         /\ (/\ confirms[j].pc = "save"
             /\ confirms'[j] # confirms[j]
             /\ \A o \in orders : o.stripeSessionId # confirms[j].sessionId)
              => \E o \in orders' :
                    /\ orders' = orders \cup {o}
                    /\ o \notin orders
                    /\ OrderAsClaimed(o, confirms[j].sessionId)
         /\ (/\ confirms[j].pc = "retrieve"
             /\ confirms'[j] # confirms[j]
             /\ confirms[j].sessionId # NoSession
             /\ sessions[confirms[j].sessionId].payment_status = "paid"
             /\ sessions[confirms[j].sessionId].couponCode # NoCode)
              => confirms'[j].pc = "deactivate"
         /\ (/\ confirms[j].pc = "deactivate"
             /\ confirms'[j] # confirms[j])
              => /\ confirms'[j].pc = "save"
                 /\ \A i \in DOMAIN coupons' :
                       (/\ coupons'[i].code
                             = sessions[confirms[j].sessionId].couponCode
                        /\ coupons'[i].userId
                             = sessions[confirms[j].sessionId].userId)
                         => ~coupons'[i].isActive]_vars

----------------------------------------------------------------------------
(* Claims about the award and the payment, checked under SpecConfirm *)

\* the users with an order of a session that was paid
UsersWithPaidOrder(ords) ==
    {o.user : o \in {x \in ords :
                        sessions[x.stripeSessionId].payment_status = "paid"}}

\* C21: a coupon is created for a user only when a qualifying order of that
\* user has completed; a checkout whose payment is never confirmed awards
\* no coupon and removes no existing coupon.
C21_AwardOnlyAfterCompletedOrder ==
    [][/\ couponIds' # couponIds
           => coupons'[Len(coupons')].userId \in UsersWithPaidOrder(orders)
       /\ \A i \in DOMAIN coupons :
             (\A k \in DOMAIN coupons' : coupons'[k].id # coupons[i].id)
               => coupons[i].userId \in UsersWithPaidOrder(orders)]_vars

----------------------------------------------------------------------------
(* Claim about the analytics, checked under SpecAnalytics *)

\* C22: for every start <= end, at any time of day, dailySeries(start, end)
\* returns exactly one entry per calendar day from start's day to end's day
\* inclusive, in ascending order, each with sales and revenue >= 0 that
\* equal the count and revenue of the matching orders of that day (zero
\* when there is none).
C22_OneEntryPerCalendarDay ==
    (seriesRange # NoRange /\ seriesRange.startDate <= seriesRange.endDate)
      => LET first == DayOf(seriesRange.startDate)
             last == DayOf(seriesRange.endDate)
             ofDay(d) == {o \in Matched(orders, seriesRange.startDate,
                                        seriesRange.endDate) :
                             DayOf(o.createdAt) = d}
         IN  /\ Len(series) = last - first + 1
             /\ \A i \in DOMAIN series :
                   /\ series[i].date = first + i - 1
                   /\ series[i].sales >= 0
                   /\ series[i].revenue.units >= 0
                   /\ series[i].sales = Cardinality(ofDay(series[i].date))
                   /\ series[i].revenue
                        = Div100(SumHundredths(ofDay(series[i].date)))

----------------------------------------------------------------------------
(* Claims about the featured routes, checked under SpecFeat and             *)
(* SpecFeatRace                                                             *)

\* C23: every failure inside a handler is converted into a response: when
\* the lookup or the persist step of toggleFeatured throws, the request is
\* answered with an error and not left unanswered; so a handler that has
\* ended has answered.
C23_FailuresAreAnswered ==
    featResp.op # "none" => featResp.status \in {200, 404, 500}

\* C25: once every toggleFeatured and getFeatured request of an
\* interleaving (a sequential run included) has completed, the featured
\* cache entry, if present, equals the set of products whose isFeatured
\* flag is true in the database.
C25_CacheEqualsFeaturedSet ==
    ((\A i \in DOMAIN featReqs : featReqs[i].pc = "ended")
       /\ featuredCache.present)
      => featuredCache.ids = Featured(products)

\* a step in which a getFeatured miss or a toggleFeatured ends with its
\* redis.set
CacheWriter ==
    \E i \in DOMAIN featReqs :
       /\ featReqs[i].pc \in {"redisSet", "cacheSet"}
       /\ featReqs'[i].pc = "ended"

\* a step in which getFeatured answers from the cache
CacheHit ==
    \E i \in DOMAIN featReqs :
       /\ featReqs[i].pc = "redisGet"
       /\ featReqs'[i].pc = "ended"
       /\ featResp'.status = 200

\* C29: the featured cache entry is written only by a getFeatured miss and
\* by toggleFeatured; createProduct and deleteProduct leave it unchanged,
\* so a deleted featured product that is in the cache is still returned by
\* getFeatured.
C29_OnlyMissAndToggleWriteCache ==
    [][/\ featuredCache' # featuredCache => CacheWriter
       /\ (resp' # resp /\ resp'.op \in {"createProduct", "deleteProduct"})
             => featuredCache' = featuredCache
       /\ CacheHit =>
             \A p \in ProductIds :
                (products[p] = "deleted" /\ p \in featuredCache.ids)
                  => p \in featResp'.body]_vars

\* a featured product was deleted by an administrator and is in the answer
\* of getFeatured, the cache still holding it
C29_Witness ==
    /\ resp.op = "deleteProduct" /\ resp.status = 200
    /\ featResp.op = "getFeaturedProducts" /\ featResp.status = 200
    /\ \E p \in ProductIds :
          /\ products[p] = "deleted"
          /\ p \in featResp.body
          /\ p \in featuredCache.ids

----------------------------------------------------------------------------
(* Further claims about the confirmations, checked under SpecConfirm        *)

\* C24: every checkoutSuccess request receives exactly one response, a 200
\* or a 500, whatever the payment status of the retrieved session, a
\* session that is not paid included; so a confirmation whose handler has
\* ended was answered with 200 or with 500.
C24_EveryConfirmationAnswered ==
    confirmResp # EndedConfirm =>
       /\ confirmResp.pc = "done"
       /\ confirmResp.status \in {200, 500}

\* the stored orders whose session carried a discount
DiscountedOrders ==
    {o \in orders : sessions[o.stripeSessionId].percentOff > 0}

\* C28: a coupon is redeemed at most once: over any sequence of
\* createCheckoutSession and confirmation calls, at most one paid order
\* comes from a session that carried the discount of a given coupon; so
\* there are no more discounted orders than coupons were ever created.
C28_CouponRedeemedOnce ==
    Cardinality(DiscountedOrders) <= couponIds

----------------------------------------------------------------------------
(* Further claims about the frontend, checked under SpecClient              *)

\* a step in which a refresh-token request is answered with success
RefreshSucceeds ==
    \E p \in Reqs :
       /\ refreshReq[p] = "sent"
       /\ refreshReq'[p] = "done"
       /\ promise'[p] = "resolved"

\* a step in which the interceptor re-sends request r after its 401: at
\* once when the 401 arrives, or when the promise it awaited resolves
Resent(r) ==
    /\ reqPc'[r] = "sent"
    /\ \/ reqPc[r] = "sent" /\ ~reqRetry[r] /\ reqRetry'[r]
       \/ reqPc[r] = "awaiting"

\* C26: whenever the interceptor re-sends an original request after a 401,
\* a refresh-token request has completed successfully between that 401 and
\* the re-send, also when the 401 arrives while checkingAuth is true; so a
\* request whose 401 has just arrived is not re-sent at once, and one that
\* waited is re-sent when a refresh request succeeds.
C26_ResendOnlyAfterRefresh ==
    [][\A r \in Reqs : Resent(r) => (reqPc[r] = "awaiting" /\ RefreshSucceeds)]_vars

\* C27: refreshPromise is non-null only while a refresh request is
\* outstanding; once a refresh has finished, with success or with failure,
\* the marker is null again and the next 401 starts a new refresh.
C27_MarkerOnlyWhileOutstanding ==
    refreshPromise # NoPromise => refreshPromise \in OutstandingRefreshes

----------------------------------------------------------------------------
(* A further claim about the request gate, checked under SpecSession        *)

\* C30: the decision of the gate depends only on the access token and the
\* user record, never on the refresh-token cache: after a logout of user u
\* an unexpired access token of u issued before it is still accepted.
C30_GateIgnoresRefreshCache ==
    (/\ resp.op = "getProfile"
     /\ GoodAccessToken
     /\ revoked[resp.cookieIn.userId]
     /\ redis[resp.cookieIn.userId] = NoEntry)
      => (resp.status = 200 /\ resp.ran
          /\ resp.principal = resp.cookieIn.userId)

\* a user has signed out, the cache holds no refresh token of theirs, and
\* the request with the access token of their login was let through
C30_Witness ==
    /\ resp.op = "getProfile"
    /\ GoodAccessToken
    /\ revoked[resp.cookieIn.userId]
    /\ redis[resp.cookieIn.userId] = NoEntry
    /\ resp.cookieIn \in issued
    /\ resp.status = 200

====
